---------------------------- MODULE Spec2Model ----------------------------
(***************************************************************************)
(* A model of astrometry-go-client's WCS header parser,                    *)
(* internal/solver/result.go: ParseWCSFile reads a FITS header file in     *)
(* 80-byte records into a map from keys to strings, extracts the numeric   *)
(* WCS parameters, derives the field centre, pixel scale, rotation and     *)
(* field dimensions, and rejects a result whose RA, Dec and pixel scale    *)
(* are all zero.                                                           *)
(*                                                                         *)
(* float64 is modelled as a fixed-point number with a resolution of one    *)
(* half, together with NaN and the two infinities: a finite value is the   *)
(* integer number of halves it holds, and an operation whose exact result  *)
(* is no multiple of one half rounds to the nearest one (ties to even), as *)
(* IEEE 754 rounds to the nearest double. Overflow of finite values and    *)
(* the sign of zero are not modelled.                                      *)
(***************************************************************************)
EXTENDS Integers, Sequences, FiniteSets, TLC

(***************************************************************************)
(* Bounds of the model.                                                    *)
(***************************************************************************)
\* The number of distinct keys a header map may hold.
MaxKeys == 6
\* The number of bytes of a record that are not the spaces that fill it.
MaxText == 6

(***************************************************************************)
(* Program constants.                                                      *)
(***************************************************************************)
\* buf := make([]byte, 80): the length of a FITS record.
RecordLen == 80

(***************************************************************************)
(* float64.                                                                *)
(***************************************************************************)
Fin(n) == [k |-> "fin", n |-> n]
NaN == [k |-> "nan", n |-> 0]
PInf == [k |-> "inf", n |-> 1]
NInf == [k |-> "inf", n |-> -1]
Zero == Fin(0)
\* The float64 of an integer literal of the source (180.0, 360.0).
IntF(i) == Fin(2 * i)

IsNaN(a) == a.k = "nan"
IsInf(a) == a.k = "inf"
IsFin(a) == a.k = "fin"

\* p / q for q > 0, rounded to the nearest integer, ties to even.
RoundDiv(p, q) ==
    LET f == p \div q
        r == p - f * q
    IN  IF 2 * r < q THEN f
        ELSE IF 2 * r > q THEN f + 1
        ELSE IF f % 2 = 0 THEN f ELSE f + 1

\* a == b, a < b, a > b, a >= b and a != b of Go: every comparison with NaN
\* is false, except != which is true.
FEq(a, b) == ~IsNaN(a) /\ ~IsNaN(b) /\ a = b
FLt(a, b) ==
    /\ ~IsNaN(a)
    /\ ~IsNaN(b)
    /\ IF IsInf(a) THEN a.n = -1 /\ b # NInf
       ELSE IF IsInf(b) THEN b.n = 1
       ELSE a.n < b.n
FGt(a, b) == FLt(b, a)
FGe(a, b) == FGt(a, b) \/ FEq(a, b)
FNe(a, b) == ~FEq(a, b)

FNeg(a) == IF IsNaN(a) THEN NaN ELSE [a EXCEPT !.n = -a.n]
FAdd(a, b) ==
    IF IsNaN(a) \/ IsNaN(b) THEN NaN
    ELSE IF IsInf(a) /\ IsInf(b) THEN (IF a.n = b.n THEN a ELSE NaN)
    ELSE IF IsInf(a) THEN a
    ELSE IF IsInf(b) THEN b
    ELSE Fin(a.n + b.n)
FSub(a, b) == FAdd(a, FNeg(b))
SignOf(a) == IF a.n > 0 THEN 1 ELSE IF a.n < 0 THEN -1 ELSE 0
FMul(a, b) ==
    IF IsNaN(a) \/ IsNaN(b) THEN NaN
    ELSE IF IsInf(a) \/ IsInf(b)
         THEN (IF SignOf(a) * SignOf(b) = 0 THEN NaN
               ELSE IF SignOf(a) * SignOf(b) > 0 THEN PInf ELSE NInf)
    ELSE Fin(RoundDiv(a.n * b.n, 2))
\* a * c and a / c for a positive integer literal c of the source (2.0, 3600.0).
FMulC(a, c) == IF IsFin(a) THEN Fin(a.n * c) ELSE a
FDivC(a, c) == IF IsFin(a) THEN Fin(RoundDiv(a.n, c)) ELSE a

\* The integer nearest to the square root of m >= 0.
RECURSIVE ISqrtFloor(_, _, _)
ISqrtFloor(m, lo, hi) ==
    IF lo >= hi THEN lo
    ELSE LET mid == (lo + hi + 1) \div 2
         IN  IF mid * mid <= m THEN ISqrtFloor(m, mid, hi)
             ELSE ISqrtFloor(m, lo, mid - 1)
ISqrtRound(m) ==
    LET f == ISqrtFloor(m, 0, IF m < 46340 THEN m ELSE 46340)
    IN  IF m - f * f <= f THEN f ELSE f + 1
\* math.Sqrt: the square root of n/2 is sqrt(2n)/2.
FSqrt(a) ==
    IF IsNaN(a) THEN NaN
    ELSE IF IsInf(a) THEN (IF a.n = 1 THEN PInf ELSE NaN)
    ELSE IF a.n < 0 THEN NaN
    ELSE Fin(ISqrtRound(2 * a.n))

\* tan((k - 1/2) degrees) * 10^6 for k = 1..45: the arctangent of t in [0, 1]
\* is nearest to j degrees when exactly j of these are at most t.
TanHalfDegrees ==
    << 8727, 26186, 43661, 61163, 78702, 96289, 113936, 131652, 149451,
       167343, 185339, 203452, 221695, 240079, 258618, 277325, 296213,
       315299, 334595, 354119, 373885, 393910, 414214, 434812, 455726,
       476976, 498582, 520567, 542956, 565773, 589045, 612801, 637070,
       661886, 687281, 713293, 739961, 767327, 795436, 824336, 854081,
       884725, 916331, 948965, 982697 >>
\* The arctangent of p/q in whole degrees, for 0 <= p <= q and q > 0.
AtanOctant(p, q) ==
    Cardinality({k \in 1..45 : TanHalfDegrees[k] * q <= p * 1000000})
\* The arctangent of p/q in whole degrees (0..90), for p, q > 0.
AtanQuadrant(p, q) ==
    IF p <= q THEN AtanOctant(p, q) ELSE 90 - AtanOctant(q, p)
AbsInt(i) == IF i < 0 THEN -i ELSE i
\* math.Atan2(y, x) * 180.0 / math.Pi: the angle of the point (x, y) in
\* degrees, in [-180, 180], rounded to the nearest degree. math.Atan2's
\* special cases are the ones its documentation lists.
Atan2Deg(y, x) ==
    IF IsNaN(y) \/ IsNaN(x) THEN NaN
    ELSE IF IsInf(x) /\ IsInf(y)
         THEN IntF(y.n * (IF x.n = 1 THEN 45 ELSE 135))
    ELSE IF IsInf(x)
         THEN (IF x.n = 1 THEN Zero
               ELSE IF y.n < 0 THEN IntF(-180) ELSE IntF(180))
    ELSE IF IsInf(y) THEN IntF(y.n * 90)
    ELSE IF y.n = 0 THEN (IF x.n >= 0 THEN Zero ELSE IntF(180))
    ELSE IF x.n = 0 THEN IntF(SignOf(y) * 90)
    ELSE LET q == AtanQuadrant(AbsInt(y.n), AbsInt(x.n))
         IN  IntF(SignOf(y) * (IF x.n > 0 THEN q ELSE 180 - q))

\* func abs(x float64) float64
abs(x) == IF FLt(x, Zero) THEN FNeg(x) ELSE x

(***************************************************************************)
(* Strings: the functions of package strings that ParseWCSFile calls.      *)
(* Indexes are Go's: the first byte of a string has index 0.               *)
(***************************************************************************)
CharAt(s, i) == SubSeq(s, i + 1, i + 1)
\* s[from:to] and s[from:]
Slice(s, from, to) == SubSeq(s, from + 1, to)
SliceFrom(s, from) == SubSeq(s, from + 1, Len(s))

\* strings.HasPrefix
HasPrefix(s, prefix) ==
    Len(s) >= Len(prefix) /\ Slice(s, 0, Len(prefix)) = prefix

\* strings.Index for a one-byte separator: the index of its first
\* occurrence, or -1.
Index(s, c) ==
    LET at == {i \in 0..(Len(s) - 1) : CharAt(s, i) = c}
    IN  IF at = {} THEN -1 ELSE CHOOSE i \in at : \A j \in at : i <= j

\* The white space of unicode.IsSpace among the bytes of the model.
WhiteSpace == {" ", "\t", "\n", "\r", "\f"}

RECURSIVE TrimLeftSet(_, _)
TrimLeftSet(s, cutset) ==
    IF Len(s) > 0 /\ CharAt(s, 0) \in cutset
    THEN TrimLeftSet(SliceFrom(s, 1), cutset)
    ELSE s
RECURSIVE TrimRightSet(_, _)
TrimRightSet(s, cutset) ==
    IF Len(s) > 0 /\ CharAt(s, Len(s) - 1) \in cutset
    THEN TrimRightSet(Slice(s, 0, Len(s) - 1), cutset)
    ELSE s
\* strings.Trim(s, cutset), the cutset given as the set of its bytes.
Trim(s, cutset) == TrimRightSet(TrimLeftSet(s, cutset), cutset)
\* strings.TrimSpace
TrimSpace(s) == Trim(s, WhiteSpace)

\* strings.SplitN(s, sep, 2) for a one-byte separator: s itself when sep does
\* not occur, and otherwise the text before and the text after its first
\* occurrence.
SplitN2(s, sep) ==
    LET idx == Index(s, sep)
    IN  IF idx = -1 THEN << s >>
        ELSE << Slice(s, 0, idx), SliceFrom(s, idx + 1) >>

(***************************************************************************)
(* strconv.ParseFloat(s, 64), for the forms the model's files hold: "nan", *)
(* an optionally signed "inf" or "infinity" (in any case), and an          *)
(* optionally signed decimal number with an optional fraction. Exponents,  *)
(* hexadecimal numbers and underscores do not occur in them. The result is *)
(* the pair of ParseFloat: the value and whether err == nil.               *)
(***************************************************************************)
UpperCase == "ABCDEFGHIJKLMNOPQRSTUVWXYZ"
LowerCase == "abcdefghijklmnopqrstuvwxyz"
DecimalDigits == "0123456789"

LowerChar(c) ==
    LET i == Index(UpperCase, c)
    IN  IF i = -1 THEN c ELSE CharAt(LowerCase, i)
RECURSIVE ToLower(_)
ToLower(s) ==
    IF Len(s) = 0 THEN s
    ELSE LowerChar(CharAt(s, 0)) \o ToLower(SliceFrom(s, 1))

AllDigits(s) ==
    \A i \in 0..(Len(s) - 1) : Index(DecimalDigits, CharAt(s, i)) # -1
RECURSIVE DecimalValue(_)
DecimalValue(s) ==
    IF Len(s) = 0 THEN 0
    ELSE 10 * DecimalValue(Slice(s, 0, Len(s) - 1))
         + Index(DecimalDigits, CharAt(s, Len(s) - 1))
RECURSIVE Pow10(_)
Pow10(n) == IF n = 0 THEN 1 ELSE 10 * Pow10(n - 1)

ParseOk(v) == [ok |-> TRUE, v |-> v]
ParseErr == [ok |-> FALSE, v |-> Zero]

ParseFloat(s) ==
    LET signed == Len(s) > 0 /\ CharAt(s, 0) \in {"+", "-"}
        sign == IF signed /\ CharAt(s, 0) = "-" THEN -1 ELSE 1
        body == IF signed THEN SliceFrom(s, 1) ELSE s
        dot == Index(body, ".")
        whole == IF dot = -1 THEN body ELSE Slice(body, 0, dot)
        frac == IF dot = -1 THEN "" ELSE SliceFrom(body, dot + 1)
        scale == Pow10(Len(frac))
    IN  IF ToLower(s) = "nan" THEN ParseOk(NaN)
        ELSE IF ToLower(body) \in {"inf", "infinity"}
             THEN ParseOk(IF sign = 1 THEN PInf ELSE NInf)
        ELSE IF AllDigits(whole) /\ AllDigits(frac) /\ Len(whole) + Len(frac) > 0
             THEN ParseOk(Fin(sign * RoundDiv(
                      2 * (DecimalValue(whole) * scale + DecimalValue(frac)),
                      scale)))
        ELSE ParseErr

(***************************************************************************)
(* One 80-byte record of the file, as the body of the read loop treats it: *)
(* a record that begins with END or holds no "=" stores nothing, and any   *)
(* other record stores the value under the key.                            *)
(***************************************************************************)
NoEntry == [stored |-> FALSE, key |-> "", value |-> ""]
\* A variant of ParseRecord without the last TrimSpace, the one after the
\* quotes are removed.
ParseRecordTrimmedOnce(line) ==
    IF Len(line) = 0 \/ HasPrefix(line, "END") THEN NoEntry
    ELSE LET parts == SplitN2(line, "=")
         IN  IF Len(parts) # 2 THEN NoEntry
             ELSE LET key == TrimSpace(parts[1])
                      afterEq == TrimSpace(parts[2])
                      idx == Index(afterEq, "/")
                      noComment == IF idx # -1 THEN Slice(afterEq, 0, idx)
                                   ELSE afterEq
                  IN  [stored |-> TRUE, key |-> key,
                       value |-> Trim(TrimSpace(noComment), {"'"})]
\* A variant of ParseRecord that removes the quotes before the comment.
ParseRecordUnquotedFirst(line) ==
    IF Len(line) = 0 \/ HasPrefix(line, "END") THEN NoEntry
    ELSE LET parts == SplitN2(line, "=")
         IN  IF Len(parts) # 2 THEN NoEntry
             ELSE LET key == TrimSpace(parts[1])
                      unquoted == Trim(TrimSpace(parts[2]), {"'"})
                      idx == Index(unquoted, "/")
                      noComment == IF idx # -1 THEN Slice(unquoted, 0, idx)
                                   ELSE unquoted
                  IN  [stored |-> TRUE, key |-> key,
                       value |-> TrimSpace(noComment)]
ParseRecord(line) ==
    IF Len(line) = 0 \/ HasPrefix(line, "END") THEN NoEntry
    ELSE LET parts == SplitN2(line, "=")
         IN  IF Len(parts) # 2 THEN NoEntry
             ELSE LET key == TrimSpace(parts[1])
                      afterEq == TrimSpace(parts[2])
                      idx == Index(afterEq, "/")
                      noComment == IF idx # -1 THEN Slice(afterEq, 0, idx)
                                   ELSE afterEq
                      unquoted == Trim(TrimSpace(noComment), {"'"})
                  IN  [stored |-> TRUE, key |-> key,
                       value |-> TrimSpace(unquoted)]

(***************************************************************************)
(* The files of the model: every record ReadRecord may find in the file is *)
(* one of these 80-byte lines, in any order and any number of times.       *)
(***************************************************************************)
RECURSIVE Spaces(_)
Spaces(n) == IF n <= 0 THEN "" ELSE " " \o Spaces(n - 1)
\* A header card: the text padded with spaces to the length of a record.
Card(text) == text \o Spaces(RecordLen - Len(text))

Corpus ==
    { Card("CRVAL1  =                   10 / RA of reference point (deg)"),
      Card("CRVAL1  =                    0 / RA of reference point (deg)"),
      Card("CRVAL1  = 'n/a'"),
      Card("CRVAL2  =                   -5 / Dec of reference point (deg)"),
      Card("CRVAL2  = undefined"),
      Card("CRPIX1  =                    3 / X reference pixel"),
      Card("CRPIX1  = 1,5"),
      Card("CRPIX2  =                  2.0 / Y reference pixel"),
      Card("CD1_1   =                 -120 / Transformation matrix"),
      Card("CD1_1   =                  NaN / Transformation matrix"),
      Card("CD1_1   = 1O"),
      Card("CD1_2   =                    4 / Transformation matrix"),
      Card("CD1_2   =                   -1 / Transformation matrix"),
      Card("CD2_1   =                    4 / Transformation matrix"),
      Card("CD2_2   =                  Inf / Transformation matrix"),
      Card("CD2_2   =                    1 / Transformation matrix"),
      Card("IMAGEW  =                    6 / Image width"),
      Card("IMAGEW  =                   -6 / Image width"),
      Card("IMAGEW  = wide"),
      Card("IMAGEH  =                    4 / Image height"),
      Card("IMAGEH  = 4 px"),
      Card("NAXIS1  =                    8 / length of data axis 1"),
      Card("NAXIS1  = 0x"),
      Card("NAXIS2  =                    2 / length of data axis 2"),
      Card("CROTA2  =                  400 / Rotation angle"),
      Card("CROTA2  =                -15.5 / Rotation angle"),
      Card("CROTA2  = 'N'"),
      Card("HISTORY solved by astrometry.net"),
      Card("END") }

\* What each line of the corpus stores, and what each stored value parses to.
Parsed == [line \in Corpus |-> ParseRecord(line)]
CorpusValues == {Parsed[line].value : line \in Corpus}
Floats == [s \in CorpusValues |-> ParseFloat(s)]
\* strconv.ParseFloat(val, 64) of a value of the header map.
ParseHeaderFloat(val) ==
    IF val \in CorpusValues THEN Floats[val] ELSE ParseFloat(val)

(***************************************************************************)
(* The coordinate transform, as functions of the header map.               *)
(***************************************************************************)
EmptyHeader == [key \in {} |-> ""]

\* if val, ok := result.WCSHeader[key]; ok {
\*     if v, err := strconv.ParseFloat(val, 64); err == nil { x = v } }
\* for a variable x declared zero.
Extract(h, key) ==
    IF key \in DOMAIN h /\ ParseHeaderFloat(h[key]).ok
    THEN ParseHeaderFloat(h[key]).v
    ELSE Zero

\* A variant of HasWCS that sets hasWCS as soon as the CRVAL1 key is in the
\* map, parsable or not.
HasWCSPresent(h) == "CRVAL1" \in DOMAIN h
\* hasWCS: set where CRVAL1 is read.
HasWCS(h) == "CRVAL1" \in DOMAIN h /\ ParseHeaderFloat(h["CRVAL1"]).ok

\* A variant of ImageDimension that also falls back to the second key when
\* the first one is in the map and does not parse.
ImageDimensionUsable(h, first, second) ==
    IF first \in DOMAIN h /\ ParseHeaderFloat(h[first]).ok
    THEN Extract(h, first)
    ELSE Extract(h, second)
\* imageW and imageH: if the first key is in the map the second one is not
\* looked at.
ImageDimension(h, first, second) ==
    IF first \in DOMAIN h THEN Extract(h, first)
    ELSE IF second \in DOMAIN h THEN Extract(h, second)
    ELSE Zero

\* The local variables of ParseWCSFile after "Extract all WCS parameters" and
\* "Get image dimensions".
TransformParameters(h) ==
    [ crval1 |-> Extract(h, "CRVAL1"), crval2 |-> Extract(h, "CRVAL2"),
      crpix1 |-> Extract(h, "CRPIX1"), crpix2 |-> Extract(h, "CRPIX2"),
      cd11 |-> Extract(h, "CD1_1"), cd12 |-> Extract(h, "CD1_2"),
      cd21 |-> Extract(h, "CD2_1"), cd22 |-> Extract(h, "CD2_2"),
      imageW |-> ImageDimension(h, "IMAGEW", "NAXIS1"),
      imageH |-> ImageDimension(h, "IMAGEH", "NAXIS2"),
      hasWCS |-> HasWCS(h) ]

\* Variants of UsePrimaryPath: one that tests the dimensions with != 0, one
\* that is content with one positive dimension.
UsePrimaryPathNonZero(tp) ==
    tp.hasWCS /\ FNe(tp.imageW, Zero) /\ FNe(tp.imageH, Zero)
UsePrimaryPathEitherDimension(tp) ==
    tp.hasWCS /\ (FGt(tp.imageW, Zero) \/ FGt(tp.imageH, Zero))
\* if hasWCS && imageW > 0 && imageH > 0
UsePrimaryPath(tp) ==
    tp.hasWCS /\ FGt(tp.imageW, Zero) /\ FGt(tp.imageH, Zero)

\* for result.Rotation < 0 { result.Rotation += 360.0 }
RECURSIVE RaiseRotation(_)
RaiseRotation(r) ==
    IF FLt(r.v, Zero)
    THEN RaiseRotation([v |-> FAdd(r.v, IntF(360)), steps |-> r.steps + 1])
    ELSE r
\* for result.Rotation >= 360 { result.Rotation -= 360.0 }
RECURSIVE LowerRotation(_)
LowerRotation(r) ==
    IF FGe(r.v, IntF(360))
    THEN LowerRotation([v |-> FSub(r.v, IntF(360)), steps |-> r.steps + 1])
    ELSE r
\* The two normalisation loops: the rotation they leave and the number of
\* iterations they ran.
NormalizeRotation(rotation) ==
    LowerRotation(RaiseRotation([v |-> rotation, steps |-> 0]))

\* result.Rotation = 180.0 - (rotationRad * 180.0 / math.Pi)
RawRotation(tp) == FSub(IntF(180), Atan2Deg(tp.cd12, tp.cd11))

\* The branch taken when UsePrimaryPath holds.
PrimaryPath(res, tp) ==
    LET centerX == FDivC(tp.imageW, 2)
        centerY == FDivC(tp.imageH, 2)
        dx == FSub(centerX, tp.crpix1)
        dy == FSub(centerY, tp.crpix2)
        dRA == FAdd(FMul(tp.cd11, dx), FMul(tp.cd12, dy))
        dDec == FAdd(FMul(tp.cd21, dx), FMul(tp.cd22, dy))
        pixelScaleDeg == FSqrt(FAdd(FMul(tp.cd11, tp.cd11),
                                    FMul(tp.cd21, tp.cd21)))
    IN  [res EXCEPT !.RA = FAdd(tp.crval1, dRA),
                    !.Dec = FAdd(tp.crval2, dDec),
                    !.PixelScale = FMulC(pixelScaleDeg, 3600),
                    !.Rotation = NormalizeRotation(RawRotation(tp)).v]

\* Variants of FallbackPath: one that normalises CROTA2 as the primary path
\* normalises its rotation, one that takes the pixel scale from CD1_1 and
\* CD2_1 as the primary path does.
FallbackPathNormalized(res, tp, h) ==
    [res EXCEPT !.RA = tp.crval1,
                !.Dec = tp.crval2,
                !.PixelScale = IF FNe(tp.cd11, Zero)
                               THEN FMulC(abs(tp.cd11), 3600)
                               ELSE @,
                !.Rotation = IF "CROTA2" \in DOMAIN h
                                /\ ParseHeaderFloat(h["CROTA2"]).ok
                             THEN NormalizeRotation(
                                      ParseHeaderFloat(h["CROTA2"]).v).v
                             ELSE @]
FallbackPathHypotenuse(res, tp, h) ==
    [res EXCEPT !.RA = tp.crval1,
                !.Dec = tp.crval2,
                !.PixelScale = FMulC(FSqrt(FAdd(FMul(tp.cd11, tp.cd11),
                                                FMul(tp.cd21, tp.cd21))), 3600),
                !.Rotation = IF "CROTA2" \in DOMAIN h
                                /\ ParseHeaderFloat(h["CROTA2"]).ok
                             THEN ParseHeaderFloat(h["CROTA2"]).v
                             ELSE @]
\* The else branch.
FallbackPath(res, tp, h) ==
    [res EXCEPT !.RA = tp.crval1,
                !.Dec = tp.crval2,
                !.PixelScale = IF FNe(tp.cd11, Zero)
                               THEN FMulC(abs(tp.cd11), 3600)
                               ELSE @,
                !.Rotation = IF "CROTA2" \in DOMAIN h
                                /\ ParseHeaderFloat(h["CROTA2"]).ok
                             THEN ParseHeaderFloat(h["CROTA2"]).v
                             ELSE @]

\* if s, ok := result.WCSHeader[key]; ok {
\*     if w, err := strconv.ParseFloat(s, 64); err == nil && result.PixelScale > 0 {
\*         field = (w * result.PixelScale) / 3600.0 } }
FieldFrom(h, key, pixelScale, field) ==
    IF /\ key \in DOMAIN h
       /\ ParseHeaderFloat(h[key]).ok
       /\ FGt(pixelScale, Zero)
    THEN FDivC(FMul(ParseHeaderFloat(h[key]).v, pixelScale), 3600)
    ELSE field

\* A variant of FieldDimensions in which NAXIS1 and NAXIS2 are used only
\* when IMAGEW and IMAGEH gave nothing.
FieldDimensionsImageFirst(res, h) ==
    [res EXCEPT
        !.FieldWidth = FieldFrom(h, "IMAGEW", res.PixelScale,
                           FieldFrom(h, "NAXIS1", res.PixelScale, @)),
        !.FieldHeight = FieldFrom(h, "IMAGEH", res.PixelScale,
                            FieldFrom(h, "NAXIS2", res.PixelScale, @))]
\* "Calculate field dimensions": IMAGEW and IMAGEH first, then NAXIS1 and
\* NAXIS2 over them.
FieldDimensions(res, h) ==
    [res EXCEPT
        !.FieldWidth = FieldFrom(h, "NAXIS1", res.PixelScale,
                           FieldFrom(h, "IMAGEW", res.PixelScale, @)),
        !.FieldHeight = FieldFrom(h, "NAXIS2", res.PixelScale,
                            FieldFrom(h, "IMAGEH", res.PixelScale, @))]

\* A variant of NoValidFields that rejects a result only if its rotation is
\* zero as well.
NoValidFieldsWithRotation(res) ==
    /\ FEq(res.RA, Zero)
    /\ FEq(res.Dec, Zero)
    /\ FEq(res.PixelScale, Zero)
    /\ FEq(res.Rotation, Zero)
\* if result.RA == 0 && result.Dec == 0 && result.PixelScale == 0
NoValidFields(res) ==
    FEq(res.RA, Zero) /\ FEq(res.Dec, Zero) /\ FEq(res.PixelScale, Zero)

\* result := &Result{Solved: true, WCSHeader: make(map[string]string)}
NewResult ==
    [ Solved |-> TRUE, RA |-> Zero, Dec |-> Zero, PixelScale |-> Zero,
      Rotation |-> Zero, FieldWidth |-> Zero, FieldHeight |-> Zero ]
\* No Result has been allocated.
NilResult == [NewResult EXCEPT !.Solved = FALSE]

\* ParseWCSFile from the end of the read loop to its return, as a function of
\* the header map: the Result it built and whether it returned
\* ErrWCSParseFailed instead of it.
\* Each stage is computed once and bound to a name, as the code
\* assigns it once: t the locals, centred the Result after the branch,
\* measured the Result after the field dimensions.
ParseHeader(h) ==
    CHOOSE out \in
        { [result |-> measured, failed |-> NoValidFields(measured)] :
            measured \in
              { FieldDimensions(centred, h) :
                  centred \in
                    { IF UsePrimaryPath(t) THEN PrimaryPath(NewResult, t)
                      ELSE FallbackPath(NewResult, t, h) :
                        t \in {TransformParameters(h)} } } } : TRUE

(***************************************************************************)
(* Go error values. An error is the chain of its layers, the outermost     *)
(* first: fmt.Errorf with %w puts a *fmt.wrapError in front of the error   *)
(* it wraps, and the os package returns a *fs.PathError in front of a      *)
(* syscall.Errno. The nil error is the empty chain.                        *)
(***************************************************************************)
Layer(type, msg) == [type |-> type, msg |-> msg]
NilError == << >>
\* name = errors.New(msg), a package variable: errors.Is tells two such
\* values apart even when their texts are the same, so the layer carries
\* the name of the variable.
ErrorsNew(name, msg) == << Layer(name, msg) >>
\* fmt.Errorf(msg + ": %w", err)
Wrap(msg, err) == << Layer("*fmt.wrapError", msg) >> \o err
\* fmt.Errorf("%w: " + msg, sentinel): the same kind of value, the wrapped
\* error named first in the text.
WrapSentinel(sentinel, msg) == << Layer("*fmt.wrapError", msg) >> \o sentinel
\* The error of a failed os.Open, os.Stat, os.ReadFile or os.MkdirTemp.
PathError(op, errno) ==
    << Layer("*fs.PathError", op), Layer("syscall.Errno", errno) >>

\* var ( ErrNoSolution ... ErrWCSParseFailed ) of package solver
ErrNoSolution == ErrorsNew("solver.ErrNoSolution", "no solution found")
ErrTimeout == ErrorsNew("solver.ErrTimeout", "solve operation timed out")
ErrDockerFailed == ErrorsNew("solver.ErrDockerFailed", "docker command failed")
ErrInvalidInput ==
    ErrorsNew("solver.ErrInvalidInput", "invalid input parameters")
ErrWCSParseFailed ==
    ErrorsNew("solver.ErrWCSParseFailed", "failed to parse WCS output")
\* ErrInvalidInput of package client, another variable with the same text.
ClientErrInvalidInput ==
    ErrorsNew("client.ErrInvalidInput", "invalid input parameters")

\* errors.Is(err, target) for a sentinel target: err or an error that err
\* wraps, at any depth, is the target.
ErrorsIs(err, target) ==
    \E i \in 1..Len(err) : SubSeq(err, i, Len(err)) = target
\* A variant of IsNotExist that looks through every wrapper, as
\* errors.Is(err, fs.ErrNotExist) does.
IsNotExistUnwrapping(err) ==
    \E i \in 1..Len(err) : err[i] = Layer("syscall.Errno", "ENOENT")
\* os.IsNotExist(err): underlyingError takes the error out of a
\* *fs.PathError, *os.LinkError or *os.SyscallError, and out of nothing
\* else; what is left must itself be the errno.
IsNotExist(err) ==
    LET underlying ==
            IF Len(err) > 0
               /\ err[1].type \in {"*fs.PathError", "*os.LinkError",
                                   "*os.SyscallError"}
            THEN Tail(err)
            ELSE err
    IN  underlying = << Layer("syscall.Errno", "ENOENT") >>

\* The errnos a failing call on a path may give in the model.
OpenErrnos == {"ENOENT", "EACCES"}

(***************************************************************************)
(* ParseWCSFile as a state machine.                                        *)
(*   pc      where the call stands: "open", "read" (the read loop),        *)
(*           "transform", "fields", "validate", "done"                     *)
(*   header  result.WCSHeader                                              *)
(*   tp      the numeric local variables (crval1 .. imageH, hasWCS)        *)
(*   path    the branch of the transform that ran: "none", "primary" or    *)
(*           "fallback"                                                    *)
(*   result  the fields of *result that ParseWCSFile sets                  *)
(*   ret     what the call returned: whether a result, and which error     *)
(*   readEnd how the read loop ended: "none" while it runs, "EOF" (Read    *)
(*           returned io.EOF), "error" (Read returned another error) or    *)
(*           "short" (Read returned fewer than 80 bytes)                   *)
(*   err     the error value the call returned                             *)
(***************************************************************************)
VARIABLES pc, header, tp, path, result, ret, readEnd, err

wcsVars == << pc, header, tp, path, result, ret, readEnd, err >>

(***************************************************************************)
(* The state of the other operations of the package, each of which has a   *)
(* specification of its own below; ParseWCSFile leaves it alone.           *)
(*   buf, entry       one record and what the read loop makes of it        *)
(*   solve, files     a call of Solve or SolveBytes and the file system    *)
(*   config, client   a call of NewClient                                  *)
(*   opts, args       a call of buildSolveArgs                             *)
(*   query, recommended   a call of RecommendIndexes                       *)
(*   camera, detected     a call of detectSensor                           *)
(*   wcs                  a call of ParseWCSFile on a file of given bytes  *)
(*   the calls in flight, the shared file system and the Client of a concurrent use*)
(***************************************************************************)
VARIABLES buf, entry, solve, files, config, client, opts, args, query,
          recommended, camera, detected, wcs, calls, disk, shared

recordVars == << buf, entry >>
solveVars == << solve, files >>
clientVars == << config, client >>
argsVars == << opts, args >>
indexVars == << query, recommended >>
sensorVars == << camera, detected >>
fileVars == << wcs >>
concurrentVars == << calls, disk, shared >>

vars ==
    << wcsVars, recordVars, solveVars, clientVars, argsVars, indexVars,
       sensorVars, fileVars, concurrentVars >>

\* The value of the variables of an operation that is not running.
Idle == "idle"
WCSIdle ==
    /\ pc = Idle /\ header = Idle /\ tp = Idle /\ path = Idle
    /\ result = Idle /\ ret = Idle /\ readEnd = Idle /\ err = Idle
RecordIdle == buf = Idle /\ entry = Idle
SolveIdle == solve = Idle /\ files = Idle
ClientIdle == config = Idle /\ client = Idle
ArgsIdle == opts = Idle /\ args = Idle
IndexIdle == query = Idle /\ recommended = Idle
SensorIdle == camera = Idle /\ detected = Idle
FileIdle == wcs = Idle
ConcurrentIdle == calls = Idle /\ disk = Idle /\ shared = Idle

NotReturned == [result |-> FALSE, err |-> "pending"]

Init ==
    /\ pc = "open"
    /\ header = EmptyHeader
    /\ tp = TransformParameters(EmptyHeader)
    /\ path = "none"
    /\ result = NilResult
    /\ ret = NotReturned
    /\ readEnd = "none"
    /\ err = NilError
    /\ RecordIdle /\ SolveIdle /\ ClientIdle /\ ArgsIdle /\ IndexIdle
    /\ SensorIdle /\ FileIdle /\ ConcurrentIdle

\* What every step of ParseWCSFile leaves alone.
notWCS ==
    << recordVars, solveVars, clientVars, argsVars, indexVars, sensorVars,
       fileVars, concurrentVars >>

\* return nil, fmt.Errorf("%w: no valid WCS fields found", ErrWCSParseFailed)
NoValidFieldsError ==
    WrapSentinel(ErrWCSParseFailed, "no valid WCS fields found")

\* A variant of OpenError that reports the failure as a parse failure:
\* fmt.Errorf("%w: failed to open WCS file", ErrWCSParseFailed).
OpenErrorAsParseFailure(cause) ==
    WrapSentinel(ErrWCSParseFailed, "failed to open WCS file")
\* return nil, fmt.Errorf("failed to open WCS file: %w", err)
OpenError(cause) == Wrap("failed to open WCS file", cause)

\* os.Open succeeds.
OpenFile ==
    /\ pc = "open"
    /\ pc' = "read"
    /\ result' = NewResult
    /\ UNCHANGED << header, tp, path, ret, readEnd, err, notWCS >>

\* os.Open fails: return nil, fmt.Errorf("failed to open WCS file: %w", err)
OpenFails ==
    /\ pc = "open"
    /\ pc' = "done"
    /\ ret' = [result |-> FALSE, err |-> "open"]
    /\ \E errno \in OpenErrnos : err' = OpenError(PathError("open", errno))
    /\ UNCHANGED << header, tp, path, result, readEnd, notWCS >>

\* One iteration of the read loop that read a whole record.
ReadRecord ==
    /\ pc = "read"
    /\ \E record \in Corpus :
          /\ Len(record) = RecordLen
          /\ header' = IF Parsed[record].stored
                       THEN (Parsed[record].key :> Parsed[record].value)
                            @@ header
                       ELSE header
    /\ Cardinality(DOMAIN header') <= MaxKeys
    /\ UNCHANGED << pc, tp, path, result, ret, readEnd, err, notWCS >>

\* The ways file.Read ends the loop: io.EOF, another error, and a record of
\* fewer than 80 bytes with no error.
ReadEndings == {"EOF", "error", "short"}
\* file.Read returned an error (the end of the file among them) or fewer
\* than 80 bytes: break.
ReadEnds ==
    /\ pc = "read"
    /\ pc' = "transform"
    /\ readEnd' \in ReadEndings
    /\ UNCHANGED << header, tp, path, result, ret, err, notWCS >>

\* "Parse WCS transformation parameters" to the end of the if/else that
\* computes the field centre.
Transform ==
    /\ pc = "transform"
    /\ pc' = "fields"
    /\ tp' = TransformParameters(header)
    /\ IF UsePrimaryPath(tp')
       THEN path' = "primary" /\ result' = PrimaryPath(result, tp')
       ELSE path' = "fallback" /\ result' = FallbackPath(result, tp', header)
    /\ UNCHANGED << header, ret, readEnd, err, notWCS >>

\* "Calculate field dimensions from image size and pixel scale".
ComputeFields ==
    /\ pc = "fields"
    /\ pc' = "validate"
    /\ result' = FieldDimensions(result, header)
    /\ UNCHANGED << header, tp, path, ret, readEnd, err, notWCS >>

\* "Validate that we got essential fields", and the return.
Validate ==
    /\ pc = "validate"
    /\ pc' = "done"
    /\ ret' = IF NoValidFields(result)
              THEN [result |-> FALSE, err |-> "ErrWCSParseFailed"]
              ELSE [result |-> TRUE, err |-> "nil"]
    /\ err' = IF NoValidFields(result) THEN NoValidFieldsError ELSE NilError
    /\ UNCHANGED << header, tp, path, result, readEnd, notWCS >>

Next ==
    \/ OpenFile
    \/ OpenFails
    \/ ReadRecord
    \/ ReadEnds
    \/ Transform
    \/ ComputeFields
    \/ Validate

Spec == Init /\ [][Next]_vars

(***************************************************************************)
(* Vocabulary of the properties.                                           *)
(***************************************************************************)
NumericKeys ==
    { "CRVAL1", "CRVAL2", "CRPIX1", "CRPIX2", "CD1_1", "CD1_2", "CD2_1",
      "CD2_2", "IMAGEW", "IMAGEH", "NAXIS1", "NAXIS2", "CROTA2" }

\* The key is in the header map; it is there and parses as a number; and the
\* number it stands for, a missing or unparsable value counting as 0.
Present(key) == key \in DOMAIN header
Usable(key) == Present(key) /\ ParseHeaderFloat(header[key]).ok
ValueOf(key) == IF Usable(key) THEN ParseHeaderFloat(header[key]).v ELSE Zero

\* The header map without one key, and without a set of keys.
Without(h, key) == [k \in DOMAIN h \ {key} |-> h[k]]
WithoutAll(h, keys) == [k \in DOMAIN h \ keys |-> h[k]]

\* Strictly positive, and not negative (NaN is neither positive nor negative).
Positive(a) == (IsFin(a) /\ a.n > 0) \/ a = PInf
NotNegative(a) == ~(IsFin(a) /\ a.n < 0) /\ a # NInf

\* The width and height that locate the image centre: IMAGEW / IMAGEH when
\* the key is present, NAXIS1 / NAXIS2 only when it is absent.
WidthUsed == IF Present("IMAGEW") THEN ValueOf("IMAGEW") ELSE ValueOf("NAXIS1")
HeightUsed == IF Present("IMAGEH") THEN ValueOf("IMAGEH") ELSE ValueOf("NAXIS2")
NoWidthKey == ~Present("IMAGEW") /\ ~Present("NAXIS1")
NoHeightKey == ~Present("IMAGEH") /\ ~Present("NAXIS2")

\* The offset from the reference pixel to the image centre.
OffsetX == FSub(FDivC(WidthUsed, 2), ValueOf("CRPIX1"))
OffsetY == FSub(FDivC(HeightUsed, 2), ValueOf("CRPIX2"))

\* Where the call stands: the transform has run; the field dimensions have
\* been computed; the call returned after having opened the file.
Transformed == path # "none"
Measured == path # "none" /\ pc \in {"validate", "done"}
Returned == pc = "done" /\ ret.err # "open"
ReturnedResult == pc = "done" /\ ret.result

AllThreeZero ==
    result.RA = Zero /\ result.Dec = Zero /\ result.PixelScale = Zero

(***************************************************************************)
(* C1. A Result returned with a nil error has Solved = true and does not   *)
(* have RA, Dec and PixelScale all zero; whenever the three are zero after *)
(* the computation, the call returns no result and ErrWCSParseFailed.      *)
(***************************************************************************)
C1_ValidatedResult ==
    Returned =>
        /\ ret.err = "nil" => ret.result /\ result.Solved /\ ~AllThreeZero
        /\ AllThreeZero => ~ret.result /\ ret.err = "ErrWCSParseFailed"

\* A file with no KEY = VALUE record (only END records, or empty) was read to
\* its end and rejected.
C1_Witness ==
    /\ pc = "done"
    /\ header = EmptyHeader
    /\ ret = [result |-> FALSE, err |-> "ErrWCSParseFailed"]

(***************************************************************************)
(* C2. The primary path runs exactly when CRVAL1 is present and parses and *)
(* both image dimensions are strictly positive; the path is the one the    *)
(* header map takes without its CRVAL2, CRPIX and CD keys.                 *)
(***************************************************************************)
PathOf(h) ==
    IF UsePrimaryPath(TransformParameters(h)) THEN "primary" ELSE "fallback"

C2_PrimaryPathGate ==
    Transformed =>
        /\ path = "primary" <=>
              Usable("CRVAL1") /\ Positive(WidthUsed) /\ Positive(HeightUsed)
        /\ path = PathOf(WithoutAll(header,
                      { "CRVAL2", "CRPIX1", "CRPIX2",
                        "CD1_1", "CD1_2", "CD2_1", "CD2_2" }))

\* The primary path ran on a header without CRVAL2 whose CRPIX1 does not
\* parse.
C2_Witness ==
    /\ pc = "done"
    /\ path = "primary"
    /\ ~Present("CRVAL2")
    /\ Present("CRPIX1")
    /\ ~Usable("CRPIX1")

(***************************************************************************)
(* C3, as stated. For every input that is missing CRVAL1, or CRVAL2, or    *)
(* both keys of a dimension, the fallback path runs, with RA = CRVAL1 and  *)
(* Dec = CRVAL2 exactly.                                                   *)
(***************************************************************************)
C3_Original ==
    /\ Transformed
    /\ ~Present("CRVAL1") \/ ~Present("CRVAL2") \/ NoWidthKey \/ NoHeightKey
    => /\ path = "fallback"
       /\ result.RA = ValueOf("CRVAL1")
       /\ result.Dec = ValueOf("CRVAL2")

(***************************************************************************)
(* C3, amended. For every input that is missing CRVAL1 (absent or not      *)
(* parsable), or both keys of a dimension, the fallback path runs, with    *)
(* RA = CRVAL1 and Dec = CRVAL2 exactly. A missing CRVAL2 does not select  *)
(* the fallback path: with CRVAL1 and positive dimensions the primary path *)
(* runs.                                                                   *)
(***************************************************************************)
C3_FallbackCentre ==
    Transformed =>
        /\ ~Usable("CRVAL1") \/ NoWidthKey \/ NoHeightKey
           => /\ path = "fallback"
              /\ result.RA = ValueOf("CRVAL1")
              /\ result.Dec = ValueOf("CRVAL2")
        /\ /\ ~Present("CRVAL2")
           /\ Usable("CRVAL1")
           /\ Positive(WidthUsed)
           /\ Positive(HeightUsed)
           => path = "primary"

\* The fallback path ran for want of a width, on a header whose CRPIX1 and
\* CD1_1 would have given an offset, and the result was returned.
C3_Witness ==
    /\ ReturnedResult
    /\ path = "fallback"
    /\ NoWidthKey
    /\ Positive(HeightUsed)
    /\ Usable("CRVAL1")
    /\ Usable("CRVAL2")
    /\ ValueOf("CRPIX1") # Zero
    /\ ValueOf("CD1_1") # Zero

(***************************************************************************)
(* C4. On the primary path RA = CRVAL1 + CD1_1*dx + CD1_2*dy and           *)
(* Dec = CRVAL2 + CD2_1*dx + CD2_2*dy with dx = imageW/2 - CRPIX1 and      *)
(* dy = imageH/2 - CRPIX2; and when CRPIX1 = imageW/2 and                  *)
(* CRPIX2 = imageH/2, RA and Dec are CRVAL1 and CRVAL2 exactly, for any CD *)
(* matrix.                                                                 *)
(***************************************************************************)
PrimaryCentre ==
    /\ result.RA = FAdd(ValueOf("CRVAL1"),
                        FAdd(FMul(ValueOf("CD1_1"), OffsetX),
                             FMul(ValueOf("CD1_2"), OffsetY)))
    /\ result.Dec = FAdd(ValueOf("CRVAL2"),
                         FAdd(FMul(ValueOf("CD2_1"), OffsetX),
                              FMul(ValueOf("CD2_2"), OffsetY)))
ReferencePixelAtCentre ==
    /\ FEq(ValueOf("CRPIX1"), FDivC(WidthUsed, 2))
    /\ FEq(ValueOf("CRPIX2"), FDivC(HeightUsed, 2))
CentreIsReferencePoint ==
    result.RA = ValueOf("CRVAL1") /\ result.Dec = ValueOf("CRVAL2")

C4_CentreTransform ==
    Transformed /\ path = "primary" =>
        /\ PrimaryCentre
        /\ ReferencePixelAtCentre => CentreIsReferencePoint

\* What holds of C4: the two formulas always, and the exact centre for every
\* CD matrix whose four entries are finite.
FiniteMatrix ==
    \A key \in {"CD1_1", "CD1_2", "CD2_1", "CD2_2"} : IsFin(ValueOf(key))
C4_FiniteMatrix ==
    Transformed /\ path = "primary" =>
        /\ PrimaryCentre
        /\ ReferencePixelAtCentre /\ FiniteMatrix => CentreIsReferencePoint

(***************************************************************************)
(* C5. The Rotation of every result of the primary path lies in [0, 360),  *)
(* for every pair of CD1_1 and CD1_2 values, and the normalisation loops   *)
(* terminate (here: after at most one iteration).                          *)
(***************************************************************************)
InRotationRange(r) == IsFin(r) /\ IntF(0).n <= r.n /\ r.n < IntF(360).n

C5_RotationRange ==
    Transformed /\ path = "primary" =>
        /\ InRotationRange(result.Rotation)
        /\ NormalizeRotation(RawRotation(tp)).steps \in {0, 1}

\* What holds of C5: the range for every pair of values neither of which is
\* NaN, and the termination of the loops always.
C5_NoNaN ==
    Transformed /\ path = "primary" =>
        /\ ~IsNaN(ValueOf("CD1_1")) /\ ~IsNaN(ValueOf("CD1_2"))
           => InRotationRange(result.Rotation)
        /\ NormalizeRotation(RawRotation(tp)).steps \in {0, 1}
\* The primary path met a rotation of 360 and brought it to 0.
C5_FullTurn ==
    /\ Transformed
    /\ path = "primary"
    /\ RawRotation(tp) = IntF(360)
    /\ result.Rotation = Zero

(***************************************************************************)
(* C6. On the fallback path Rotation is the parsed CROTA2 value, not       *)
(* normalised, when CROTA2 is present and parsable, and 0 otherwise; on    *)
(* the primary path CROTA2 is not consulted: the rotation is the one the   *)
(* header map gives without its CROTA2.                                    *)
(***************************************************************************)
C6_FallbackRotation ==
    Transformed =>
        /\ path = "fallback" => result.Rotation = ValueOf("CROTA2")
        /\ path = "primary" =>
              result.Rotation =
                  PrimaryPath(NewResult,
                      TransformParameters(Without(header, "CROTA2"))).Rotation

\* The fallback path returned a result whose rotation is a CROTA2 of 400.
C6_Witness ==
    /\ ReturnedResult
    /\ path = "fallback"
    /\ ValueOf("CROTA2") = IntF(400)
    /\ result.Rotation = IntF(400)

(***************************************************************************)
(* C7. On the fallback path PixelScale is |CD1_1| * 3600 when CD1_1 is not *)
(* zero and 0 otherwise, whatever CD2_1 is; PixelScale is never negative   *)
(* on either path.                                                         *)
(***************************************************************************)
\* |a| * 3600
Magnitude3600(a) ==
    IF IsNaN(a) THEN NaN
    ELSE IF IsInf(a) THEN PInf
    ELSE Fin(AbsInt(a.n) * 3600)

C7_FallbackPixelScale ==
    Transformed =>
        /\ path = "fallback" =>
              result.PixelScale = IF ValueOf("CD1_1") = Zero THEN Zero
                                  ELSE Magnitude3600(ValueOf("CD1_1"))
        /\ NotNegative(result.PixelScale)

\* The fallback path returned a pixel scale of 120 * 3600 for a CD1_1 of
\* -120 and a CD2_1 of 4.
C7_Witness ==
    /\ ReturnedResult
    /\ path = "fallback"
    /\ ValueOf("CD1_1") = IntF(-120)
    /\ ValueOf("CD2_1") = IntF(4)
    /\ result.PixelScale = IntF(120 * 3600)

(***************************************************************************)
(* C8. After either path, if PixelScale > 0 then                           *)
(* FieldWidth = w * PixelScale / 3600, w being NAXIS1 if it is present and *)
(* parsable and otherwise IMAGEW if that is; likewise FieldHeight from     *)
(* NAXIS2, then IMAGEH. If PixelScale is not positive or neither key is    *)
(* usable the dimension stays 0.                                           *)
(***************************************************************************)
ExpectedField(first, second) ==
    IF Positive(result.PixelScale) /\ (Usable(first) \/ Usable(second))
    THEN FDivC(FMul(IF Usable(first) THEN ValueOf(first) ELSE ValueOf(second),
                    result.PixelScale), 3600)
    ELSE Zero

SameOutcomeAs(h) ==
    /\ ParseHeader(h).failed <=> ret.err = "ErrWCSParseFailed"
    /\ ret.result => ParseHeader(h).result = result

C9_Original ==
    Returned =>
        \A key \in NumericKeys :
            Present(key) /\ ~Usable(key) => SameOutcomeAs(Without(header, key))

(***************************************************************************)
(* C9, amended. For every numeric key but IMAGEW and IMAGEH, a key that is *)
(* present and does not parse has the same effect as that key being        *)
(* absent. An IMAGEW or IMAGEH that is present and does not parse gives    *)
(* the width or height 0 and, unlike an absent one, keeps NAXIS1 or NAXIS2 *)
(* from locating the image centre.                                         *)
(***************************************************************************)
C9_UnparsableAsAbsent ==
    Returned =>
        /\ \A key \in NumericKeys \ {"IMAGEW", "IMAGEH"} :
              Present(key) /\ ~Usable(key)
                  => SameOutcomeAs(Without(header, key))
        /\ Present("IMAGEW") /\ ~Usable("IMAGEW") => tp.imageW = Zero
        /\ Present("IMAGEH") /\ ~Usable("IMAGEH") => tp.imageH = Zero

\* A result was returned by the primary path for a header in which a CD1_1
\* that does not parse stands beside a CRPIX1 and a CD1_2 that do.
C9_Witness ==
    /\ ReturnedResult
    /\ path = "primary"
    /\ Present("CD1_1")
    /\ ~Usable("CD1_1")
    /\ ValueOf("CRPIX1") # Zero
    /\ ValueOf("CD1_2") # Zero

(***************************************************************************)
(* C10. The width that locates the image centre is IMAGEW whenever the     *)
(* IMAGEW key is present and NAXIS1 only when it is absent (likewise       *)
(* IMAGEH and NAXIS2); a header with a parsable CRVAL1 and positive NAXIS1 *)
(* and NAXIS2 but no IMAGEW and IMAGEH runs the primary path with the      *)
(* NAXIS dimensions.                                                       *)
(***************************************************************************)
C10_ImageDimensions ==
    Transformed =>
        /\ tp.imageW = WidthUsed
        /\ tp.imageH = HeightUsed
        /\ /\ Usable("CRVAL1")
           /\ ~Present("IMAGEW")
           /\ ~Present("IMAGEH")
           /\ Positive(ValueOf("NAXIS1"))
           /\ Positive(ValueOf("NAXIS2"))
           => /\ path = "primary"
              /\ result.RA =
                    FAdd(ValueOf("CRVAL1"),
                         FAdd(FMul(ValueOf("CD1_1"),
                                   FSub(FDivC(ValueOf("NAXIS1"), 2),
                                        ValueOf("CRPIX1"))),
                              FMul(ValueOf("CD1_2"),
                                   FSub(FDivC(ValueOf("NAXIS2"), 2),
                                        ValueOf("CRPIX2")))))

\* The primary path ran with a width of 8 and a height of 2 from NAXIS1 and
\* NAXIS2: RA = 10 + (-120) * (8/2 - 3).
C10_Witness ==
    /\ ReturnedResult
    /\ path = "primary"
    /\ ~Present("IMAGEW")
    /\ ~Present("IMAGEH")
    /\ tp.imageW = IntF(8)
    /\ tp.imageH = IntF(2)
    /\ ValueOf("CRPIX1") = IntF(3)
    /\ ValueOf("CD1_1") = IntF(-120)
    /\ ~Present("CD1_2")
    /\ result.RA = IntF(-110)

(***************************************************************************)
(* The read loop on one record, for every content of the record: the file  *)
(* holds one 80-byte record whose first bytes are any text of at most      *)
(* MaxText bytes over RecordBytes and whose other bytes are spaces.        *)
(*   buf    the text of the record written so far                          *)
(*   entry  << >> until the loop has read the record, and then the one     *)
(*          entry it made of it                                            *)
(***************************************************************************)
RecordBytes == {"K", "=", "'", " ", "/"}

InitRecord ==
    /\ buf = ""
    /\ entry = << >>
    /\ WCSIdle /\ SolveIdle /\ ClientIdle /\ ArgsIdle /\ IndexIdle
    /\ SensorIdle /\ FileIdle /\ ConcurrentIdle

notRecord ==
    << wcsVars, solveVars, clientVars, argsVars, indexVars, sensorVars,
       fileVars, concurrentVars >>

\* The file is written: one more byte of the record.
WriteByte ==
    /\ entry = << >>
    /\ Len(buf) < MaxText
    /\ \E c \in RecordBytes : buf' = buf \o c
    /\ UNCHANGED << entry, notRecord >>

\* One iteration of the read loop on the record: line := string(buf) and
\* what follows, to result.WCSHeader[key] = valuePart.
ReadLine ==
    /\ entry = << >>
    /\ entry' = << ParseRecord(Card(buf)) >>
    /\ UNCHANGED << buf, notRecord >>

NextRecord ==
    \/ WriteByte
    \/ ReadLine

SpecRecord == InitRecord /\ [][NextRecord]_vars

\* The record has been read and stored a value; the value.
Stored == Len(entry) = 1 /\ entry[1].stored
StoredValue == entry[1].value
StartsWith(s, set) == Len(s) > 0 /\ CharAt(s, 0) \in set
EndsWith(s, set) == Len(s) > 0 /\ CharAt(s, Len(s) - 1) \in set

(***************************************************************************)
(* C11, as stated. Every value stored in the header map is trimmed and     *)
(* unquoted: it has no leading or trailing white space and no leading or   *)
(* trailing single quote, for every content of the 80-byte record.         *)
(***************************************************************************)
C11_Original ==
    Stored =>
        /\ ~StartsWith(StoredValue, WhiteSpace \cup {"'"})
        /\ ~EndsWith(StoredValue, WhiteSpace \cup {"'"})

\* The text holds two single quotes with white space, and nothing else,
\* between them.
QuoteSpaceQuote(s) ==
    \E i, k \in 0..(Len(s) - 1) :
        /\ k > i + 1
        /\ CharAt(s, i) = "'"
        /\ CharAt(s, k) = "'"
        /\ \A j \in (i + 1)..(k - 1) : CharAt(s, j) \in WhiteSpace

(***************************************************************************)
(* C11, amended. Every value stored in the header map has no leading or    *)
(* trailing white space, for every content of the 80-byte record, and it   *)
(* has no leading or trailing single quote unless the record holds two     *)
(* single quotes separated by white space only: the quotes are removed     *)
(* once, and the white space inside them after that.                       *)
(***************************************************************************)
C11_TrimmedQuotesOnce ==
    Stored =>
        /\ ~StartsWith(StoredValue, WhiteSpace)
        /\ ~EndsWith(StoredValue, WhiteSpace)
        /\ ~QuoteSpaceQuote(buf) =>
              /\ ~StartsWith(StoredValue, {"'"})
              /\ ~EndsWith(StoredValue, {"'"})

\* A quoted value with a space inside the quotes is stored without the
\* quotes and without the space.
C11_Witness ==
    /\ Stored
    /\ buf = "K=' K'"
    /\ entry[1].key = "K"
    /\ StoredValue = "K"

(***************************************************************************)
(* C12. ParseWCSFile fails in exactly two ways. When the file cannot be    *)
(* opened it returns no result and an error that wraps the cause and does  *)
(* not match ErrWCSParseFailed. When the file was read it returns an error *)
(* exactly when RA, Dec and PixelScale are all zero, and that error        *)
(* matches ErrWCSParseFailed: whatever the records were, and however the   *)
(* reading ended, nothing else makes it fail.                              *)
(***************************************************************************)
FileRead == readEnd # "none"
C12_TwoFailures ==
    pc = "done" =>
        /\ ~FileRead =>
              /\ ~ret.result
              /\ \E errno \in OpenErrnos : Tail(err) = PathError("open", errno)
              /\ ~ErrorsIs(err, ErrWCSParseFailed)
        /\ FileRead /\ AllThreeZero =>
              ~ret.result /\ ErrorsIs(err, ErrWCSParseFailed)
        /\ FileRead /\ ~AllThreeZero => ret.result /\ err = NilError

\* The file did not exist: no result, and the error of os.Open wrapped.
C12_Witness ==
    /\ pc = "done"
    /\ ~ret.result
    /\ err = << Layer("*fmt.wrapError", "failed to open WCS file"),
                Layer("*fs.PathError", "open"),
                Layer("syscall.Errno", "ENOENT") >>

\* A file with a record that has no "=" in it and two values that are no
\* numbers gives a result and no error.
C12_MalformedIgnored ==
    /\ pc = "done"
    /\ ret.result
    /\ err = NilError
    /\ Present("CRVAL2") /\ ~Usable("CRVAL2")
    /\ Present("CROTA2") /\ ~Usable("CROTA2")

(***************************************************************************)
(* C13. If reading the file fails after it was opened (file.Read returns   *)
(* an error other than the end of the file), ParseWCSFile fails with an    *)
(* I/O error: it returns no result, and an error that does not match       *)
(* ErrWCSParseFailed.                                                      *)
(***************************************************************************)
C13_ReadErrorFails ==
    pc = "done" /\ readEnd = "error" =>
        /\ ~ret.result
        /\ err # NilError
        /\ ~ErrorsIs(err, ErrWCSParseFailed)

\* What the code does with a read error: the same as with the end of the
\* file, a result or ErrWCSParseFailed from the records read before it.
C13_ReadErrorAsEndOfFile ==
    pc = "done" /\ FileRead =>
        /\ ret.result <=> ~ParseHeader(header).failed
        /\ err \in {NilError, NoValidFieldsError}

(***************************************************************************)
(* NewClient: solver.NewClient, and client.NewClient, which makes the same *)
(* checks, sets the same defaults and then calls solver.NewClient with a   *)
(* copy of the configuration. A *ClientConfig or *Client is << >> when it  *)
(* is nil and the one-element sequence of the value it points to           *)
(* otherwise. A time.Duration is counted in seconds.                       *)
(***************************************************************************)
\* DefaultDockerImage of the two packages.
DefaultDockerImage == "dm90/astrometry"
ClientDefaultDockerImage == "diarmuidk/astrometry-dockerised-solver"
\* 5 * time.Minute
FiveMinutes == 300
\* os.TempDir(): $TMPDIR, or /tmp when it is not set; never empty.
OsTempDir == "/tmp"

\* The error of the nth os.Stat of a path in one call, for the paths of the
\* model: a directory, a path that does not exist, a path in a directory
\* that may not be searched, and a directory that is removed after the
\* first os.Stat of it.
Stat(name, nth) ==
    CASE name = "/indexes" -> NilError
      [] name = "/forbidden/indexes" -> PathError("stat", "EACCES")
      [] name = "/vanishing" ->
            IF nth = 1 THEN NilError ELSE PathError("stat", "ENOENT")
      [] OTHER -> PathError("stat", "ENOENT")

\* func DefaultClientConfig() *ClientConfig, of the two packages.
DefaultClientConfig ==
    [ DockerImage |-> DefaultDockerImage, IndexPath |-> "", TempDir |-> "",
      Timeout |-> FiveMinutes, UseDockerExec |-> FALSE, ContainerName |-> "" ]
ClientDefaultClientConfig ==
    [DefaultClientConfig EXCEPT !.DockerImage = ClientDefaultDockerImage]

\* A variant of SetDefaults that sets the defaults whatever the caller gave.
SetDefaultsAlways(c, image, timeout) ==
    [c EXCEPT !.DockerImage = image, !.Timeout = timeout,
              !.TempDir = OsTempDir]
\* "Set defaults"
SetDefaults(c, image, timeout) ==
    [c EXCEPT !.DockerImage = IF @ = "" THEN image ELSE @,
              !.Timeout = IF @ = 0 THEN timeout ELSE @,
              !.TempDir = IF @ = "" THEN OsTempDir ELSE @]

\* What a call of NewClient leaves: the caller's configuration, which the
\* call changes in place, and the two values returned.
Outcome(given, returned, error) ==
    [config |-> given, client |-> returned, err |-> error]

\* A variant of NewClient that does not look whether IndexPath exists.
NewClientUnchecked(given, nth) ==
    LET c == IF given = << >> THEN DefaultClientConfig ELSE given[1]
        set == SetDefaults(c, DefaultDockerImage, FiveMinutes)
    IN  IF c.IndexPath = ""
        THEN Outcome(given, << >>,
                     WrapSentinel(ErrInvalidInput, "IndexPath is required"))
        ELSE Outcome(<< set >>, << [config |-> set] >>, NilError)
\* solver.NewClient(config); its os.Stat is the nth of IndexPath.
NewClient(given, nth) ==
    LET c == IF given = << >> THEN DefaultClientConfig ELSE given[1]
        set == SetDefaults(c, DefaultDockerImage, FiveMinutes)
    IN  IF c.IndexPath = ""
        THEN Outcome(given, << >>,
                     WrapSentinel(ErrInvalidInput, "IndexPath is required"))
        ELSE IF IsNotExist(Stat(c.IndexPath, nth))
        THEN Outcome(given, << >>,
                     WrapSentinel(ErrInvalidInput,
                         "IndexPath does not exist: " \o c.IndexPath))
        ELSE Outcome(<< set >>, << [config |-> set] >>, NilError)

\* client.NewClient(config)
ClientNewClient(given) ==
    LET c == IF given = << >> THEN ClientDefaultClientConfig ELSE given[1]
        set == SetDefaults(c, ClientDefaultDockerImage,
                           ClientDefaultClientConfig.Timeout)
        solverCfg ==
            [ DockerImage |-> set.DockerImage, IndexPath |-> set.IndexPath,
              TempDir |-> set.TempDir, Timeout |-> set.Timeout,
              UseDockerExec |-> set.UseDockerExec,
              ContainerName |-> set.ContainerName ]
        inner == NewClient(<< solverCfg >>, 2)
    IN  IF c.IndexPath = ""
        THEN Outcome(given, << >>,
                 WrapSentinel(ClientErrInvalidInput, "IndexPath is required"))
        ELSE IF IsNotExist(Stat(c.IndexPath, 1))
        THEN Outcome(given, << >>,
                 WrapSentinel(ClientErrInvalidInput,
                     "IndexPath does not exist: " \o c.IndexPath))
        ELSE IF inner.err # NilError
        THEN Outcome(<< set >>, << >>, inner.err)
        ELSE Outcome(<< set >>,
                     << [config |-> set, solverClient |-> inner.client[1]] >>,
                     NilError)

\* The configurations NewClient is called with: nil, and every combination
\* of these fields.
ConfigInputs ==
    { << >> } \cup
    { << c >> : c \in
        [ DockerImage : {"", "custom/solver"},
          IndexPath : {"", "/indexes", "/missing", "/forbidden/indexes",
                       "/vanishing"},
          TempDir : {"", "/work"},
          Timeout : {0, 30, -1},
          UseDockerExec : BOOLEAN,
          ContainerName : {"", "solver"} ] }

\*   config  the caller's *ClientConfig
\*   client  the call made: the function called ("" before the call), the
\*           configuration as the caller gave it, and the values returned
NotCalled(given) ==
    [called |-> "", given |-> given, client |-> << >>, err |-> NilError]

InitClient ==
    /\ config \in ConfigInputs
    /\ client = NotCalled(config)
    /\ WCSIdle /\ RecordIdle /\ SolveIdle /\ ArgsIdle /\ IndexIdle
    /\ SensorIdle /\ FileIdle /\ ConcurrentIdle

notClient ==
    << wcsVars, recordVars, solveVars, argsVars, indexVars, sensorVars,
       fileVars, concurrentVars >>

\* solver.NewClient(config)
CallNewClient ==
    /\ client.called = ""
    /\ LET out == NewClient(config, 1)
       IN  /\ config' = out.config
           /\ client' = [client EXCEPT !.called = "solver.NewClient",
                                       !.client = out.client,
                                       !.err = out.err]
    /\ UNCHANGED notClient

\* client.NewClient(config)
CallClientNewClient ==
    /\ client.called = ""
    /\ LET out == ClientNewClient(config)
       IN  /\ config' = out.config
           /\ client' = [client EXCEPT !.called = "client.NewClient",
                                       !.client = out.client,
                                       !.err = out.err]
    /\ UNCHANGED notClient

NextClient ==
    \/ CallNewClient
    \/ CallClientNewClient

SpecClient == InitClient /\ [][NextClient]_vars

\* NewClient has returned; it returned a client; the ErrInvalidInput of the
\* package of the function that was called.
ClientCalled == client.called # ""
ClientReturned == ClientCalled /\ client.client # << >>
InvalidInputOf(called) ==
    IF called = "solver.NewClient" THEN ErrInvalidInput
    ELSE ClientErrInvalidInput
DefaultImageOf(called) ==
    IF called = "solver.NewClient" THEN DefaultDockerImage
    ELSE ClientDefaultDockerImage
\* The configuration was nil, or its IndexPath is empty or names a path that
\* does not exist when NewClient looks for it.
NoIndexPath(given) ==
    \/ given = << >>
    \/ given[1].IndexPath = ""
    \/ Stat(given[1].IndexPath, 1) = PathError("stat", "ENOENT")

(***************************************************************************)
(* C17. NewClient returns no client and an error matching ErrInvalidInput  *)
(* when IndexPath is empty, which includes every call with a nil config,   *)
(* or when IndexPath names a path that does not exist.                     *)
(***************************************************************************)
C17_InvalidIndexPath ==
    ClientCalled /\ NoIndexPath(client.given) =>
        /\ client.client = << >>
        /\ ErrorsIs(client.err, InvalidInputOf(client.called))

\* client.NewClient was called with a path that does not exist.
C17_Witness ==
    /\ client.called = "client.NewClient"
    /\ client.given # << >>
    /\ client.given[1].IndexPath = "/missing"
    /\ client.client = << >>
    /\ client.err =
          << Layer("*fmt.wrapError", "IndexPath does not exist: /missing"),
             Layer("client.ErrInvalidInput", "invalid input parameters") >>

(***************************************************************************)
(* C18. Every Client returned by NewClient has a config with a non-empty   *)
(* IndexPath, a non-empty DockerImage (DefaultDockerImage when none was    *)
(* given), a non-zero Timeout (5 minutes when zero was given) and a        *)
(* non-empty TempDir; the values the caller gave that are not empty and    *)
(* not zero are left unchanged.                                            *)
(***************************************************************************)
C18_ConfigDefaults ==
    ClientReturned =>
        LET g == client.given[1]
            c == client.client[1].config
        IN  /\ client.given # << >>
            /\ c.IndexPath # "" /\ c.IndexPath = g.IndexPath
            /\ c.DockerImage # ""
            /\ c.DockerImage = IF g.DockerImage = ""
                               THEN DefaultImageOf(client.called)
                               ELSE g.DockerImage
            /\ c.Timeout # 0
            /\ c.Timeout = IF g.Timeout = 0 THEN FiveMinutes ELSE g.Timeout
            /\ c.TempDir # ""
            /\ g.TempDir # "" => c.TempDir = g.TempDir
            /\ c.UseDockerExec = g.UseDockerExec
            /\ c.ContainerName = g.ContainerName
            /\ client.called = "client.NewClient" =>
                  client.client[1].solverClient.config = c

\* solver.NewClient was given an IndexPath and a timeout of 30 seconds and
\* nothing else: the client has the default image and the system's temporary
\* directory, and the timeout given.
C18_Witness ==
    /\ client.called = "solver.NewClient"
    /\ client.given =
          << [ DockerImage |-> "", IndexPath |-> "/indexes", TempDir |-> "",
               Timeout |-> 30, UseDockerExec |-> FALSE,
               ContainerName |-> "" ] >>
    /\ client.client =
          << [ config |->
                 [ DockerImage |-> "dm90/astrometry",
                   IndexPath |-> "/indexes", TempDir |-> "/tmp",
                   Timeout |-> 30, UseDockerExec |-> FALSE,
                   ContainerName |-> "" ] ] >>
    /\ client.err = NilError

(***************************************************************************)
(* buildSolveArgs: the arguments of solve-field, a sequence of strings.    *)
(***************************************************************************)
\* fmt.Sprintf("%d", i)
RECURSIVE FormatNat(_)
FormatNat(i) ==
    IF i < 10 THEN CharAt(DecimalDigits, i)
    ELSE FormatNat(i \div 10) \o CharAt(DecimalDigits, i % 10)
FormatInt(i) == IF i < 0 THEN "-" \o FormatNat(-i) ELSE FormatNat(i)
\* fmt.Sprintf("%.6f", a): a finite value is a whole number of halves, which
\* six decimals hold exactly.
FormatFloat6(a) ==
    IF IsNaN(a) THEN "NaN"
    ELSE IF IsInf(a) THEN (IF a.n = 1 THEN "+Inf" ELSE "-Inf")
    ELSE (IF a.n < 0 THEN "-" ELSE "")
         \o FormatNat(AbsInt(a.n) \div 2)
         \o (IF AbsInt(a.n) % 2 = 0 THEN ".000000" ELSE ".500000")

\* filepath.Join(dir, name) of a clean directory and a file name.
Join(dir, name) == dir \o "/" \o name

\* func DefaultSolveOptions() *SolveOptions
DefaultSolveOptions ==
    [ ScaleLow |-> Zero, ScaleHigh |-> Zero, ScaleUnits |-> "arcminwidth",
      DownsampleFactor |-> 2, DepthLow |-> 10, DepthHigh |-> 20,
      NoPlots |-> TRUE, RA |-> Zero, Dec |-> Zero, Radius |-> Zero,
      OverwriteExisting |-> FALSE, Verbose |-> FALSE,
      KeepTempFiles |-> FALSE ]

\* args = append(args, more...) when the condition holds.
AppendIf(condition, list, more) == IF condition THEN list \o more ELSE list

\* A variant of BuildSolveArgs that passes the scale bounds when one of them
\* is positive.
BuildSolveArgsEitherScale(cfg, imageFilename, tempDir, o) ==
    LET scale == AppendIf(FGt(o.ScaleLow, Zero) \/ FGt(o.ScaleHigh, Zero),
                     << "solve-field" >>,
                     << "-L", FormatFloat6(o.ScaleLow),
                        "-H", FormatFloat6(o.ScaleHigh),
                        "-u", o.ScaleUnits >>)
        downsample == AppendIf(o.DownsampleFactor > 0, scale,
                          << "--downsample", FormatInt(o.DownsampleFactor) >>)
        depth == AppendIf(o.DepthLow > 0 /\ o.DepthHigh > 0, downsample,
                     << "--depth",
                        FormatInt(o.DepthLow) \o "-" \o FormatInt(o.DepthHigh) >>)
        plots == AppendIf(o.NoPlots, depth, << "--no-plots" >>)
        hinted == FNe(o.RA, Zero) \/ FNe(o.Dec, Zero)
        hint == AppendIf(hinted, plots,
                    << "--ra", FormatFloat6(o.RA),
                       "--dec", FormatFloat6(o.Dec) >>)
        radius == AppendIf(hinted /\ FGt(o.Radius, Zero), hint,
                      << "--radius", FormatFloat6(o.Radius) >>)
        overwrite == AppendIf(o.OverwriteExisting, radius, << "--overwrite" >>)
        verify == AppendIf(~o.Verbose, overwrite, << "--no-verify" >>)
        workDir == IF cfg.UseDockerExec THEN tempDir ELSE "/data"
        imagePath == IF cfg.UseDockerExec THEN Join(tempDir, imageFilename)
                     ELSE "/data/" \o imageFilename
    IN  verify \o << "--dir", workDir, imagePath >>
\* func (c *Client) buildSolveArgs(imageFilename, tempDir string,
\*     opts *SolveOptions) []string, for the configuration c.config.
BuildSolveArgs(cfg, imageFilename, tempDir, o) ==
    LET scale == AppendIf(FGt(o.ScaleLow, Zero) /\ FGt(o.ScaleHigh, Zero),
                     << "solve-field" >>,
                     << "-L", FormatFloat6(o.ScaleLow),
                        "-H", FormatFloat6(o.ScaleHigh),
                        "-u", o.ScaleUnits >>)
        downsample == AppendIf(o.DownsampleFactor > 0, scale,
                          << "--downsample", FormatInt(o.DownsampleFactor) >>)
        depth == AppendIf(o.DepthLow > 0 /\ o.DepthHigh > 0, downsample,
                     << "--depth",
                        FormatInt(o.DepthLow) \o "-" \o FormatInt(o.DepthHigh) >>)
        plots == AppendIf(o.NoPlots, depth, << "--no-plots" >>)
        hinted == FNe(o.RA, Zero) \/ FNe(o.Dec, Zero)
        hint == AppendIf(hinted, plots,
                    << "--ra", FormatFloat6(o.RA),
                       "--dec", FormatFloat6(o.Dec) >>)
        radius == AppendIf(hinted /\ FGt(o.Radius, Zero), hint,
                      << "--radius", FormatFloat6(o.Radius) >>)
        overwrite == AppendIf(o.OverwriteExisting, radius, << "--overwrite" >>)
        verify == AppendIf(~o.Verbose, overwrite, << "--no-verify" >>)
        workDir == IF cfg.UseDockerExec THEN tempDir ELSE "/data"
        imagePath == IF cfg.UseDockerExec THEN Join(tempDir, imageFilename)
                     ELSE "/data/" \o imageFilename
    IN  verify \o << "--dir", workDir, imagePath >>

\* The options buildSolveArgs is called with.
OptionInputs ==
    [ ScaleLow : {Zero, IntF(1), IntF(-1)}, ScaleHigh : {Zero, IntF(3)},
      ScaleUnits : {"arcminwidth"},
      DownsampleFactor : {0, 2, -2}, DepthLow : {0, 10}, DepthHigh : {0, 20},
      NoPlots : BOOLEAN,
      RA : {Zero, IntF(10), NaN}, Dec : {Zero, Fin(-11)},
      Radius : {Zero, IntF(5), IntF(-1)},
      OverwriteExisting : BOOLEAN, Verbose : BOOLEAN,
      KeepTempFiles : {FALSE} ]

\*   opts  the call: the client's configuration, the two strings and *opts
\*   args  << >> until buildSolveArgs has returned, and then what it
\*         returned
InitArgs ==
    /\ opts \in [ config : {[DefaultClientConfig EXCEPT
                                !.IndexPath = "/indexes",
                                !.UseDockerExec = exec,
                                !.ContainerName = IF exec THEN "solver"
                                                  ELSE ""] :
                            exec \in BOOLEAN},
                  imageFilename : {"m31.jpg"},
                  tempDir : {"/tmp/astrometry-1"},
                  options : OptionInputs ]
    /\ args = << >>
    /\ WCSIdle /\ RecordIdle /\ SolveIdle /\ ClientIdle /\ IndexIdle
    /\ SensorIdle /\ FileIdle /\ ConcurrentIdle

notArgs ==
    << wcsVars, recordVars, solveVars, clientVars, indexVars, sensorVars,
       fileVars, concurrentVars >>

\* args := c.buildSolveArgs(imageFilename, tempDir, opts)
CallBuildSolveArgs ==
    /\ args = << >>
    /\ args' = BuildSolveArgs(opts.config, opts.imageFilename, opts.tempDir,
                              opts.options)
    /\ UNCHANGED << opts, notArgs >>

NextArgs == CallBuildSolveArgs

SpecArgs == InitArgs /\ [][NextArgs]_vars

\* buildSolveArgs has returned; the argument list holds the string.
ArgsBuilt == args # << >>
HasArg(a) == \E i \in 1..Len(args) : args[i] = a

(***************************************************************************)
(* C19. If opts.RA is 0 no search hint is used: the arguments built for    *)
(* solve-field hold none of --ra, --dec and --radius, whatever opts.Dec    *)
(* and opts.Radius are.                                                    *)
(***************************************************************************)
C19_NoHintWithoutRA ==
    ArgsBuilt /\ FEq(opts.options.RA, Zero) =>
        ~HasArg("--ra") /\ ~HasArg("--dec") /\ ~HasArg("--radius")

\* What the code does: the hint is used when RA or Dec is not 0, and the
\* radius with it when it is positive.
C19_HintWhenEitherSet ==
    ArgsBuilt =>
        LET o == opts.options
            hinted == o.RA # Zero \/ o.Dec # Zero
        IN  /\ HasArg("--ra") <=> hinted
            /\ HasArg("--dec") <=> hinted
            /\ HasArg("--radius") <=> hinted /\ Positive(o.Radius)

(***************************************************************************)
(* Solve and SolveBytes. The file system is the set of the paths that      *)
(* exist; the docker command, and every call that may fail for reasons     *)
(* outside the program, is a choice among its outcomes.                    *)
(***************************************************************************)
\* strings.Contains
Contains(s, sub) ==
    \E i \in 0..(Len(s) - Len(sub)) : Slice(s, i, i + Len(sub)) = sub
\* strings.LastIndex for a one-byte separator, or -1.
LastIndex(s, c) ==
    LET at == {i \in 0..(Len(s) - 1) : CharAt(s, i) = c}
    IN  IF at = {} THEN -1 ELSE CHOOSE i \in at : \A j \in at : i >= j
\* filepath.Base of a clean path that does not end in a separator.
Base(name) == SliceFrom(name, LastIndex(name, "/") + 1)
\* filepath.Ext: the suffix that begins at the last dot of the last element
\* of the path, or "".
Ext(name) ==
    LET dot == LastIndex(name, ".")
    IN  IF dot > LastIndex(name, "/") THEN SliceFrom(name, dot) ELSE ""
\* strings.TrimSuffix
TrimSuffix(s, suffix) ==
    IF Len(s) >= Len(suffix) /\ SliceFrom(s, Len(s) - Len(suffix)) = suffix
    THEN Slice(s, 0, Len(s) - Len(suffix))
    ELSE s
\* The path is the directory or lies in it.
Within(name, dir) == name = dir \/ HasPrefix(name, dir \o "/")

\* extensions := []string{".wcs", ".corr", ...}
OutputExtensions ==
    << ".wcs", ".corr", ".solved", ".match", ".rdls", ".axy", "-indx.xyls" >>
\* func (c *Client) collectOutputFiles(tempDir, imageFilename string)
\* []string, in the file system fs.
RECURSIVE CollectFrom(_, _, _, _)
CollectFrom(fs, tempDir, baseName, i) ==
    IF i > Len(OutputExtensions) THEN << >>
    ELSE LET name == Join(tempDir, baseName \o OutputExtensions[i])
         IN  (IF name \in fs THEN << name >> ELSE << >>)
             \o CollectFrom(fs, tempDir, baseName, i + 1)
CollectOutputFiles(fs, tempDir, imageFilename) ==
    CollectFrom(fs, tempDir, TrimSuffix(imageFilename, Ext(imageFilename)), 1)

\* A *Result: the fields ParseWCSFile sets, and the two Solve sets.
SolveResult(r, outputFiles, solveTime) ==
    [ Solved |-> r.Solved, RA |-> r.RA, Dec |-> r.Dec,
      PixelScale |-> r.PixelScale, Rotation |-> r.Rotation,
      FieldWidth |-> r.FieldWidth, FieldHeight |-> r.FieldHeight,
      OutputFiles |-> outputFiles, SolveTime |-> solveTime ]
\* A variant of UnsolvedResult that carries the time the command took.
UnsolvedResultTimed == SolveResult(NilResult, << >>, IntF(3))
\* &Result{Solved: false}
UnsolvedResult == SolveResult(NilResult, << >>, Zero)

\* A variant of NotSolvedOrError that looks for the missing file with
\* errors.Is(err, fs.ErrNotExist), through the wrapper of ParseWCSFile.
NotSolvedOrErrorUnwrapping(error) ==
    IF IsNotExistUnwrapping(error)
    THEN [result |-> << UnsolvedResult >>, err |-> NilError]
    ELSE [result |-> << >>, err |-> error]
\* if err != nil { if os.IsNotExist(err) { return &Result{Solved: false}, nil }
\*                 return nil, err }
NotSolvedOrError(error) ==
    IF IsNotExist(error)
    THEN [result |-> << UnsolvedResult >>, err |-> NilError]
    ELSE [result |-> << >>, err |-> error]

\* The outputs of the docker command the model tells apart.
DockerTexts ==
    { "", "Did not solve (all field objects examined).",
      "solve-field: Failed to solve field.",
      "docker: Error response from daemon." }
\* The header of the .wcs file solve-field writes: one that parses to
\* nothing, and one of a solved field.
WCSWritten ==
    { EmptyHeader,
      [ k \in {"CRVAL1", "CRVAL2", "CD1_1", "IMAGEW", "IMAGEH"} |->
          CASE k = "CRVAL1" -> "10"
            [] k = "CRVAL2" -> "-5"
            [] k = "CD1_1" -> "-1"
            [] k = "IMAGEW" -> "6"
            [] OTHER -> "4" ] }
\* The sets of files solve-field leaves beside the image, by extension.
FilesWritten == { {}, {".axy"}, {".wcs", ".axy"}, {".wcs", ".corr", ".solved"} }

(***************************************************************************)
(* A call of Solve, or of SolveBytes and the call of Solve it makes.       *)
(*   files  the paths that exist                                           *)
(*   solve  the call:                                                      *)
(*     pc         "create", "write", "close" (SolveBytes before it calls   *)
(*                Solve), "stat", "mkdir", "copy", "docker", "parse"       *)
(*                (Solve), "defer" (Solve has set what it returns and runs *)
(*                its deferred functions), "remove" (the deferred          *)
(*                os.Remove of SolveBytes), "returned"                     *)
(*     entry      the function the caller called                           *)
(*     config     c.config                                                 *)
(*     opts       << >> for nil, or << *opts >>                            *)
(*     imagePath  the argument of Solve                                    *)
(*     tempFile   tempFile.Name() of SolveBytes, "" before os.CreateTemp   *)
(*     tempDir    tempDir of Solve, "" before os.MkdirTemp                 *)
(*     cleanup    the deferred os.RemoveAll is registered                  *)
(*     args       dockerArgs                                               *)
(*     docker     how the docker command ended: ctxErr is solveCtx.Err()   *)
(*                when it returned ("" for nil), elapsed that the deadline *)
(*                of solveCtx had passed by then                           *)
(*     result, err   what Solve returns                                    *)
(*     log        the lines written with log.Printf                        *)
(*     removed    the deferred os.Remove of SolveBytes: "" before it ran,  *)
(*                "ok" or "failed" after                                   *)
(***************************************************************************)
NoDocker ==
    [ran |-> FALSE, ctxErr |-> "", elapsed |-> FALSE, failed |-> FALSE,
     output |-> "", written |-> {}, wcs |-> EmptyHeader]

ImageFormat == "jpg"
SolveConfig(exec) ==
    [ DockerImage |-> DefaultDockerImage, IndexPath |-> "/indexes",
      TempDir |-> OsTempDir, Timeout |-> FiveMinutes, UseDockerExec |-> exec,
      ContainerName |-> IF exec THEN "solver" ELSE "" ]

InitSolve ==
    /\ files = {"/photos/m31.jpg"}
    /\ \E entryPoint \in {"Solve", "SolveBytes"}, exec \in BOOLEAN,
          o \in {<< >>} \cup
                {<< [DefaultSolveOptions EXCEPT !.KeepTempFiles = keep] >> :
                    keep \in BOOLEAN},
          image \in {"/photos/m31.jpg", "/photos/missing.jpg"} :
          /\ entryPoint = "SolveBytes" => image = "/photos/m31.jpg"
          /\ solve =
               [ pc |-> IF entryPoint = "Solve" THEN "stat" ELSE "create",
                 entry |-> entryPoint, config |-> SolveConfig(exec),
                 opts |-> o,
                 imagePath |-> IF entryPoint = "Solve" THEN image ELSE "",
                 tempFile |-> "", tempDir |-> "", cleanup |-> FALSE,
                 args |-> << >>, docker |-> NoDocker,
                 result |-> << >>, err |-> NilError, log |-> << >>,
                 removed |-> "" ]
    /\ WCSIdle /\ RecordIdle /\ ClientIdle /\ ArgsIdle /\ IndexIdle
    /\ SensorIdle /\ FileIdle /\ ConcurrentIdle

notSolve ==
    << wcsVars, recordVars, clientVars, argsVars, indexVars, sensorVars,
       fileVars, concurrentVars >>

\* if opts == nil { opts = DefaultSolveOptions() }
EffectiveOptions(o) == IF o = << >> THEN DefaultSolveOptions ELSE o[1]
\* Where the call goes on when Solve has returned.
AfterSolve(s) == IF s.entry = "SolveBytes" THEN "remove" ELSE "returned"
\* return res, error: at position next.
Return(s, res, error, next) ==
    [s EXCEPT !.pc = next, !.result = res, !.err = error]

\* tempFile, err := os.CreateTemp(c.config.TempDir, "image-*."+format)
CreateTemp ==
    /\ solve.pc = "create"
    /\ \/ /\ solve' = Return(solve, << >>,
                         Wrap("failed to create temp file",
                              PathError("open", "EACCES")), "returned")
          /\ UNCHANGED files
       \/ LET name == Join(solve.config.TempDir, "image-1." \o ImageFormat)
          IN  /\ solve' = [solve EXCEPT !.pc = "write", !.tempFile = name]
              /\ files' = files \cup {name}
    /\ UNCHANGED notSolve

\* tempFile.Write(data); on an error the file is closed and SolveBytes
\* returns.
WriteData ==
    /\ solve.pc = "write"
    /\ \/ solve' = Return(solve, << >>,
                       Wrap("failed to write image data",
                            PathError("write", "ENOSPC")), "remove")
       \/ solve' = [solve EXCEPT !.pc = "close"]
    /\ UNCHANGED << files, notSolve >>

\* tempFile.Close(), and the call c.Solve(ctx, tempFile.Name(), opts).
CloseTemp ==
    /\ solve.pc = "close"
    /\ \/ solve' = Return(solve, << >>,
                       Wrap("failed to close temp file",
                            PathError("close", "EIO")), "remove")
       \/ solve' = [solve EXCEPT !.pc = "stat", !.imagePath = solve.tempFile]
    /\ UNCHANGED << files, notSolve >>

\* Solve to "Get absolute paths": the image must exist, and filepath.Abs may
\* fail.
StatImage ==
    /\ solve.pc = "stat"
    /\ IF solve.imagePath \notin files
       THEN solve' = Return(solve, << >>,
                         WrapSentinel(ErrInvalidInput,
                             "image file does not exist: " \o solve.imagePath),
                         AfterSolve(solve))
       ELSE \/ solve' = Return(solve, << >>,
                            Wrap("failed to get absolute index path",
                                 PathError("getwd", "ENOENT")),
                            AfterSolve(solve))
            \/ solve' = [solve EXCEPT !.pc = "mkdir"]
    /\ UNCHANGED << files, notSolve >>

\* tempDir, err := os.MkdirTemp(c.config.TempDir, "astrometry-*"), and the
\* deferred os.RemoveAll unless opts.KeepTempFiles.
MakeTempDir ==
    /\ solve.pc = "mkdir"
    /\ \/ /\ solve' = Return(solve, << >>,
                         Wrap("failed to create temp directory",
                              PathError("mkdir", "EACCES")),
                         AfterSolve(solve))
          /\ UNCHANGED files
       \/ LET dir == Join(solve.config.TempDir, "astrometry-1")
              keep == EffectiveOptions(solve.opts).KeepTempFiles
          IN  /\ solve' =
                    [solve EXCEPT
                        !.pc = "copy", !.tempDir = dir, !.cleanup = ~keep,
                        !.log = IF keep
                                THEN Append(@, "KeepTempFiles enabled: temp directory preserved at "
                                               \o dir)
                                ELSE @]
              /\ files' = files \cup {dir}
    /\ UNCHANGED notSolve

\* "Build Docker command based on mode"
DockerArgs(cfg, tempDir, absIndexPath, solveArgs) ==
    IF cfg.UseDockerExec
    THEN << "exec", cfg.ContainerName >> \o solveArgs
    ELSE << "run", "--rm", "-v", tempDir \o ":/data",
            "-v", absIndexPath \o ":/usr/local/astrometry/data",
            cfg.DockerImage >> \o solveArgs

\* The image file name, and the path of the .wcs file solve-field writes.
ImageFilename(s) == Base(s.imagePath)
OutputPath(s, ext) ==
    Join(s.tempDir,
         TrimSuffix(ImageFilename(s), Ext(ImageFilename(s))) \o ext)

\* copyFile(absImagePath, tempImagePath), and the arguments of the docker
\* command. When copyFile fails the copy may have been created already.
CopyImage ==
    /\ solve.pc = "copy"
    /\ LET tempImagePath == Join(solve.tempDir, ImageFilename(solve))
       IN  \/ /\ solve' = Return(solve, << >>,
                             Wrap("failed to copy image to temp directory",
                                  PathError("write", "ENOSPC")), "defer")
              /\ files' \in {files, files \cup {tempImagePath}}
           \/ /\ solve' =
                    [solve EXCEPT
                        !.pc = "docker",
                        !.args = DockerArgs(solve.config, solve.tempDir,
                                     solve.config.IndexPath,
                                     BuildSolveArgs(solve.config,
                                         ImageFilename(solve), solve.tempDir,
                                         EffectiveOptions(solve.opts)))]
              /\ files' = files \cup {tempImagePath}
    /\ UNCHANGED notSolve

\* solveCtx.Err(): a context keeps the error it ended with first, so the
\* context of a caller who cancelled before the deadline reports Canceled
\* after the deadline too.
ContextErrors == {"", "Canceled", "DeadlineExceeded"}
\* A variant of TimedOut that takes every ended context for a timeout.
TimedOutOrCanceled(ctxErr) == ctxErr # ""
\* if solveCtx.Err() == context.DeadlineExceeded
TimedOut(ctxErr) == ctxErr = "DeadlineExceeded"

\* A variant of RunDocker that looks at the output of a failed command
\* before it looks at the deadline.
RunDockerOutputFirst ==
    /\ solve.pc = "docker"
    /\ \E ctxErr \in ContextErrors, elapsed, failed \in BOOLEAN,
          text \in DockerTexts, written \in FilesWritten, h \in WCSWritten :
          /\ ctxErr = "DeadlineExceeded" => elapsed
          /\ ctxErr = "" => ~elapsed
          /\ ".wcs" \notin written => h = EmptyHeader
          /\ ~failed /\ ctxErr = "" => text = ""
          /\ files' = files \cup {OutputPath(solve, ext) : ext \in written}
          /\ LET ran == [solve EXCEPT
                            !.docker = [ran |-> TRUE, ctxErr |-> ctxErr,
                                        elapsed |-> elapsed,
                                        failed |-> failed, output |-> text,
                                        written |-> written, wcs |-> h]]
             IN  solve' =
                   IF failed /\ (Contains(text, "Did not solve")
                                 \/ Contains(text, "Failed to solve"))
                   THEN Return(ran, << UnsolvedResult >>, NilError, "defer")
                   ELSE IF TimedOut(ctxErr)
                   THEN Return(ran, << >>, ErrTimeout, "defer")
                   ELSE IF failed
                   THEN Return(ran, << >>,
                               WrapSentinel(ErrDockerFailed,
                                   "exit status 1\nOutput: " \o text),
                               "defer")
                   ELSE [ran EXCEPT !.pc = "parse"]
    /\ UNCHANGED notSolve

\* cmd.CombinedOutput() and the three tests that follow it: the deadline,
\* the error of the command, and the text it wrote.
RunDocker ==
    /\ solve.pc = "docker"
    /\ \E ctxErr \in ContextErrors, elapsed, failed \in BOOLEAN,
          text \in DockerTexts, written \in FilesWritten, h \in WCSWritten :
          /\ ctxErr = "DeadlineExceeded" => elapsed
          /\ ctxErr = "" => ~elapsed
          /\ ".wcs" \notin written => h = EmptyHeader
          /\ ~failed /\ ctxErr = "" => text = ""
          /\ files' = files \cup {OutputPath(solve, ext) : ext \in written}
          /\ LET ran == [solve EXCEPT
                            !.docker = [ran |-> TRUE, ctxErr |-> ctxErr,
                                        elapsed |-> elapsed,
                                        failed |-> failed, output |-> text,
                                        written |-> written, wcs |-> h]]
             IN  solve' =
                   IF TimedOut(ctxErr)
                   THEN Return(ran, << >>, ErrTimeout, "defer")
                   ELSE IF failed
                   THEN (IF Contains(text, "Did not solve")
                            \/ Contains(text, "Failed to solve")
                         THEN Return(ran, << UnsolvedResult >>, NilError,
                                     "defer")
                         ELSE Return(ran, << >>,
                                     WrapSentinel(ErrDockerFailed,
                                         "exit status 1\nOutput: " \o text),
                                     "defer"))
                   ELSE [ran EXCEPT !.pc = "parse"]
    /\ UNCHANGED notSolve

\* result, err := ParseWCSFile(wcsPath) and the rest of Solve: a file that
\* is not there cannot be opened, and one that is there may be unreadable.
ParseWCS ==
    /\ solve.pc = "parse"
    /\ \E wcsPath \in {OutputPath(solve, ".wcs")} :
          \/ /\ wcsPath \notin files
             /\ \E out \in {NotSolvedOrError(
                                OpenError(PathError("open", "ENOENT")))} :
                   solve' = Return(solve, out.result, out.err, "defer")
          \/ /\ wcsPath \in files
             /\ \E out \in {NotSolvedOrError(
                                OpenError(PathError("open", "EACCES")))} :
                   solve' = Return(solve, out.result, out.err, "defer")
          \/ /\ wcsPath \in files
             /\ \E parsed \in {ParseHeader(solve.docker.wcs)} :
                   IF parsed.failed
                   THEN solve' = Return(solve, << >>, NoValidFieldsError,
                                        "defer")
                   ELSE \E solveTime \in {Zero, IntF(3)} :
                           solve' = Return(solve,
                                        << SolveResult(parsed.result,
                                               CollectOutputFiles(files,
                                                   solve.tempDir,
                                                   ImageFilename(solve)),
                                               solveTime) >>,
                                        NilError, "defer")
    /\ UNCHANGED << files, notSolve >>

\* A variant of RemoveAll that removes the files of the directory and
\* leaves the directory.
RemoveAllFilesOnly(fs, dir) == {f \in fs : ~Within(f, dir) \/ f = dir}
\* os.RemoveAll(dir), when it succeeds.
RemoveAll(fs, dir) == {f \in fs : ~Within(f, dir)}

\* The deferred functions of Solve: os.RemoveAll(tempDir) when it was
\* registered, which may fail and then only logs a warning.
RunDeferred ==
    /\ solve.pc = "defer"
    /\ IF solve.cleanup
       THEN \/ /\ files' = RemoveAll(files, solve.tempDir)
               /\ solve' = [solve EXCEPT !.pc = AfterSolve(solve)]
            \/ /\ UNCHANGED files
               /\ solve' = [solve EXCEPT
                               !.pc = AfterSolve(solve),
                               !.log = Append(@, "warning: failed to remove temp directory")]
       ELSE /\ UNCHANGED files
            /\ solve' = [solve EXCEPT !.pc = AfterSolve(solve)]
    /\ UNCHANGED notSolve

\* A variant of Remove that removes nothing.
RemoveNothing(fs, name) == fs
\* os.Remove(name), when it succeeds.
Remove(fs, name) == fs \ {name}

\* The deferred function of SolveBytes: _ = os.Remove(tempFile.Name()),
\* whose error is dropped.
RemoveTemp ==
    /\ solve.pc = "remove"
    /\ \/ /\ files' = Remove(files, solve.tempFile)
          /\ solve' = [solve EXCEPT !.pc = "returned", !.removed = "ok"]
       \/ /\ UNCHANGED files
          /\ solve' = [solve EXCEPT !.pc = "returned", !.removed = "failed"]
    /\ UNCHANGED notSolve

NextSolve ==
    \/ CreateTemp
    \/ WriteData
    \/ CloseTemp
    \/ StatImage
    \/ MakeTempDir
    \/ CopyImage
    \/ RunDocker
    \/ ParseWCS
    \/ RunDeferred
    \/ RemoveTemp

SpecSolve == InitSolve /\ [][NextSolve]_vars

\* Solve has returned to its caller; the whole call has returned.
SolveReturned == solve.pc \in {"remove", "returned"} /\ solve.imagePath # ""
CallReturned == solve.pc = "returned"
\* The docker command ended before the deadline with no error.
DockerSucceeded ==
    /\ solve.docker.ran
    /\ solve.docker.ctxErr # "DeadlineExceeded"
    /\ ~solve.docker.failed
\* The paths that exist in the temp directory of the call, itself included.
InTempDir == {f \in files : Within(f, solve.tempDir)}
KeepTempFiles == EffectiveOptions(solve.opts).KeepTempFiles
RemoveAllFailed ==
    \E i \in 1..Len(solve.log) :
        solve.log[i] = "warning: failed to remove temp directory"

(***************************************************************************)
(* C14. When the docker command exits successfully and the expected .wcs   *)
(* file does not exist, Solve treats the image as not solved: it returns a *)
(* Result with Solved = false and a nil error.                             *)
(***************************************************************************)
C14_MissingWCSNotSolved ==
    SolveReturned /\ DockerSucceeded /\ ".wcs" \notin solve.docker.written =>
        /\ solve.result = << UnsolvedResult >>
        /\ solve.err = NilError

\* What the code does then: it returns no result and the error of
\* ParseWCSFile, the wrapped error of os.Open.
C14_MissingWCSIsError ==
    SolveReturned /\ DockerSucceeded /\ ".wcs" \notin solve.docker.written =>
        /\ solve.result = << >>
        /\ solve.err = OpenError(PathError("open", "ENOENT"))

(***************************************************************************)
(* C15, as stated. With KeepTempFiles = false the temp directory of the    *)
(* call is removed on every return path of Solve after it was created, so  *)
(* that no path of a returned Result.OutputFiles exists when Solve         *)
(* returns; with KeepTempFiles = true Solve never removes the temp         *)
(* directory or a file in it.                                              *)
(***************************************************************************)
OutputFilesOf(res) ==
    IF res = << >> THEN {}
    ELSE {res[1].OutputFiles[i] : i \in 1..Len(res[1].OutputFiles)}
TempDirGone ==
    /\ InTempDir = {}
    /\ OutputFilesOf(solve.result) \cap files = {}
TempDirKept ==
    /\ solve.tempDir \in files
    /\ solve.docker.ran => Join(solve.tempDir, ImageFilename(solve)) \in files
    /\ \A ext \in solve.docker.written : OutputPath(solve, ext) \in files
    /\ OutputFilesOf(solve.result) \subseteq files
Rat(num, den) == [k |-> "fin", num |-> num, den |-> den]
RatInf(sign) == [k |-> "inf", num |-> sign, den |-> 1]
RatNaN == [k |-> "nan", num |-> 0, den |-> 1]
Sgn(i) == IF i > 0 THEN 1 ELSE IF i < 0 THEN -1 ELSE 0
\* The fraction num/den in lowest terms.
RECURSIVE GCD(_, _)
GCD(a, b) == IF b = 0 THEN a ELSE GCD(b, a % b)
Reduced(num, den) ==
    LET g == GCD(AbsInt(num), den) IN Rat(num \div g, den \div g)
\* a / b, a * b and a + b of two finite numbers
RatDiv(a, b) ==
    IF b.num = 0 THEN (IF a.num = 0 THEN RatNaN ELSE RatInf(Sgn(a.num)))
    ELSE Reduced(a.num * b.den * Sgn(b.num), a.den * AbsInt(b.num))
RatMul(a, b) == Reduced(a.num * b.num, a.den * b.den)
RatAdd(a, b) == Reduced(a.num * b.den + b.num * a.den, a.den * b.den)
\* a <= b and a < b, false when one of them is NaN.
RatLe(a, b) ==
    /\ a.k # "nan"
    /\ b.k # "nan"
    /\ IF a.k = "inf" THEN a.num = -1 \/ b = a
       ELSE IF b.k = "inf" THEN b.num = 1
       ELSE a.num * b.den <= b.num * a.den
RatLt(a, b) == RatLe(a, b) /\ ~RatLe(b, a)

IndexFile(name, minFOV, maxFOV, sizeMB) ==
    [ Name |-> name, MinFOV |-> minFOV, MaxFOV |-> maxFOV, SizeMB |-> sizeMB,
      DownloadURL |-> "http://data.astrometry.net/4100/" \o name \o ".fits" ]
\* var AllIndexFiles = []IndexFile{ ... }
AllIndexFiles ==
    << IndexFile("index-4107", Rat(80, 10), Rat(110, 10), Rat(165, 1)),
       IndexFile("index-4108", Rat(56, 10), Rat(80, 10), Rat(95, 1)),
       IndexFile("index-4109", Rat(42, 10), Rat(56, 10), Rat(50, 1)),
       IndexFile("index-4110", Rat(30, 10), Rat(42, 10), Rat(25, 1)),
       IndexFile("index-4111", Rat(22, 10), Rat(30, 10), Rat(10, 1)),
       IndexFile("index-4112", Rat(16, 10), Rat(22, 10), Rat(53, 10)),
       IndexFile("index-4113", Rat(11, 10), Rat(16, 10), Rat(27, 10)),
       IndexFile("index-4114", Rat(8, 10), Rat(11, 10), Rat(14, 10)),
       IndexFile("index-4115", Rat(56, 100), Rat(8, 10), Rat(74, 100)),
       IndexFile("index-4116", Rat(4, 10), Rat(56, 100), Rat(409, 1000)),
       IndexFile("index-4117", Rat(28, 100), Rat(4, 10), Rat(248, 1000)),
       IndexFile("index-4118", Rat(2, 10), Rat(28, 100), Rat(187, 1000)),
       IndexFile("index-4119", Rat(1, 10), Rat(2, 10), Rat(144, 1000)) >>

\* if idx.MaxFOV >= minFOV && idx.MinFOV <= maxFOV
Overlaps(idx, minFOV, maxFOV) ==
    RatLe(minFOV, idx.MaxFOV) /\ RatLe(idx.MinFOV, maxFOV)

\* The loop over AllIndexFiles, from its ith element on.
RECURSIVE SelectFrom(_, _, _)
SelectFrom(i, minFOV, maxFOV) ==
    IF i > Len(AllIndexFiles) THEN << >>
    ELSE (IF Overlaps(AllIndexFiles[i], minFOV, maxFOV)
          THEN << AllIndexFiles[i] >> ELSE << >>)
         \o SelectFrom(i + 1, minFOV, maxFOV)

\* A variant of SortByMinFOV that leaves the files as the table lists them.
Unsorted(list) == list
\* sort.Slice(recommended, func(i, j int) bool {
\*     return recommended[i].MinFOV < recommended[j].MinFOV })
\* No two files have the same MinFOV, so the order is the one order.
RECURSIVE SortByMinFOV(_)
SortByMinFOV(list) ==
    IF Len(list) <= 1 THEN list
    ELSE LET least == CHOOSE i \in 1..Len(list) :
                          \A j \in 1..Len(list) :
                              RatLe(list[i].MinFOV, list[j].MinFOV)
         IN  << list[least] >>
             \o SortByMinFOV(SubSeq(list, 1, least - 1)
                             \o SubSeq(list, least + 1, Len(list)))

\* totalSize += idx.SizeMB, over the list.
RECURSIVE TotalSize(_)
TotalSize(list) ==
    IF Len(list) = 0 THEN Rat(0, 1)
    ELSE RatAdd(list[1].SizeMB, TotalSize(Tail(list)))

\* The wget lines of the download script, by the URL each one fetches.
ScriptDownloads(list) == [i \in 1..Len(list) |-> list[i].DownloadURL]

\* func RecommendIndexes(fovDegrees, margin float64) IndexRecommendation
RecommendIndexes(fovDegrees, margin) ==
    LET minFOV == RatDiv(fovDegrees, margin)
        maxFOV == RatMul(fovDegrees, margin)
        sorted == SortByMinFOV(SelectFrom(1, minFOV, maxFOV))
    IN  [ Indexes |-> sorted, TotalSizeMB |-> TotalSize(sorted),
          DownloadScript |-> ScriptDownloads(sorted) ]

\* The field widths, in hundredths of a degree, and the margins, in tenths,
\* RecommendIndexes is called with.
FovInputs == {0, 5, 10, 15, 28, 100, 270, 700, 800, 1100, 1300, 10000}
MarginInputs == {-10, 0, 5, 8, 10, 13, 15, 30, 1000}

\*   query        fovDegrees and margin
\*   recommended  << >> until RecommendIndexes has returned, and then the
\*                IndexRecommendation it returned
InitIndexes ==
    /\ query \in [ fovDegrees : {Rat(f, 100) : f \in FovInputs},
                   margin : {Rat(m, 10) : m \in MarginInputs} ]
    /\ recommended = << >>
    /\ WCSIdle /\ RecordIdle /\ SolveIdle /\ ClientIdle /\ ArgsIdle
    /\ SensorIdle /\ FileIdle /\ ConcurrentIdle

notIndexes ==
    << wcsVars, recordVars, solveVars, clientVars, argsVars, sensorVars,
       fileVars, concurrentVars >>

CallRecommendIndexes ==
    /\ recommended = << >>
    /\ recommended' = << RecommendIndexes(query.fovDegrees, query.margin) >>
    /\ UNCHANGED << query, notIndexes >>

NextIndexes == CallRecommendIndexes

SpecIndexes == InitIndexes /\ [][NextIndexes]_vars

\* RecommendIndexes has returned; the files it returned.
Recommended == recommended # << >>
Indexes == recommended[1].Indexes
\* The files bracket the field width: one of them reaches down to it and one
\* of them reaches up to it.
Brackets(list, fov) ==
    /\ \E i \in 1..Len(list) : RatLe(list[i].MinFOV, fov)
    /\ \E i \in 1..Len(list) : RatLe(fov, list[i].MaxFOV)

UpperChar(c) ==
    LET i == Index(LowerCase, c)
    IN  IF i = -1 THEN c ELSE CharAt(UpperCase, i)
RECURSIVE toUpper(_)
toUpper(s) ==
    IF s = "" THEN "" ELSE UpperChar(CharAt(s, 0)) \o toUpper(SliceFrom(s, 1))

\* func contains(s, substr string) bool
contains(s, substr) ==
    IF Len(substr) > Len(s) THEN FALSE
    ELSE \E i \in 0..(Len(s) - Len(substr)) :
            \A j \in 0..(Len(substr) - 1) :
                CharAt(s, i + j) = CharAt(substr, j)

\* type SensorSize struct, and the four sensors the tables name.
SensorSize(width, height, name) ==
    [Width |-> width, Height |-> height, Name |-> name]
FullFrame == SensorSize(Rat(360, 10), Rat(240, 10), "Full Frame (35mm)")
APSCCanon == SensorSize(Rat(223, 10), Rat(149, 10), "APS-C Canon")
APSCNikon == SensorSize(Rat(236, 10), Rat(157, 10), "APS-C Nikon/Sony")
MicroFourThirds ==
    SensorSize(Rat(173, 10), Rat(130, 10), "Micro Four Thirds")

\* []CameraMapping{{Pattern: p, Sensor: sensor}, ...} for the patterns p of
\* a list.
CameraMappings(patterns, sensor) ==
    [i \in 1..Len(patterns) |-> [Pattern |-> patterns[i], Sensor |-> sensor]]

canonMappings ==
    CameraMappings(
        << "EOS C50", "EOS R1", "EOS R3", "EOS R5 MARK II", "EOS R5",
           "EOS R6 MARK II", "EOS R6", "EOS R8", "EOS RA", "EOS RP",
           "EOS-1D C", "EOS-1D X MARK III", "EOS-1D X MARK II", "EOS-1D X",
           "EOS-1DS MARK III", "EOS-1DS MARK II", "EOS-1DS",
           "EOS 5D MARK IV", "EOS 5D MARK III", "EOS 5D MARK II", "EOS 5DS",
           "EOS 5D", "EOS 6D MARK II", "EOS 6D" >>, FullFrame)
    \o CameraMappings(
        << "EOS M", "EOS R7", "EOS R10", "EOS M5", "EOS 7D", "EOS 77D",
           "EOS 80D", "EOS 90D", "REBEL", "KISS" >>, APSCCanon)

nikonMappings ==
    CameraMappings(
        << "Z FC", "Z 50", "Z50", "D7500", "D7200", "D7100", "D5600",
           "D5500", "D5300", "D3500", "D3400", "D3300", "D500" >>, APSCNikon)
    \o CameraMappings(
        << "Z 5 II", "Z5II", "Z 5", "Z5", "Z 6 III", "Z6III", "Z 6 II",
           "Z6II", "Z 6", "Z6", "Z 7 II", "Z7II", "Z 7", "Z7", "Z 8", "Z8",
           "Z 9", "Z9", "Z F", "ZF", "Z R", "ZR",
           "D3S", "D3X", "D3 ", "D4S", "D4 ", "D5 ", "D6 ", "D600", "D610",
           "D700", "D750 ", "D780", "D800", "D810A", "D810", "D850",
           "DF " >>, FullFrame)

sonyMappings ==
    CameraMappings(
        << "ILCE-1", "A1", "ILCE-7M5", "ILCE-7M4", "ILCE-7M3", "ILCE-7M2",
           "ILCE-7", "ILCE-7RM5", "ILCE-7RM4", "ILCE-7RM3", "ILCE-7RM2",
           "ILCE-7SM3", "ILCE-7SM2", "ILCE-9M3", "ILCE-9", "FX3", "FX6",
           "ALPHA 99", "ALPHA 850", "ALPHA 900", "A99" >>, FullFrame)
    \o CameraMappings(<< "ILCE-6", "A6", "ZV-E10" >>, APSCNikon)

olympusMappings ==
    CameraMappings(
        << "E-M1X", "E-M1 MARK III", "E-M1 MARK II", "E-M1", "E-M5 MARK III",
           "E-M5 MARK II", "E-M5", "E-M10 MARK IV", "E-M10 MARK III",
           "E-M10 MARK II", "E-M10",
           "OM-1 MARK II", "OM-1", "OM-3", "OM-5",
           "E-1", "E-3", "E-5", "E-30", "E-300", "E-330", "E-400", "E-410",
           "E-420", "E-450", "E-500", "E-510", "E-520", "E-620",
           "PEN-F", "E-P1", "E-P2", "E-P3", "E-P5", "E-P7", "E-PL1", "E-PL2",
           "E-PL3", "E-PL5", "E-PL6", "E-PL7", "E-PL9", "E-PM1", "E-PM2" >>,
        MicroFourThirds)

panasonicMappings ==
    CameraMappings(
        << "DC-G9 II", "DC-G9", "DC-GH6", "DC-GH5S", "DC-GH5M2", "DC-GH5",
           "DC-GX850", "DC-GX800",
           "DMC-G85", "DMC-G80", "DMC-G10", "DMC-G7", "DMC-G6", "DMC-G5",
           "DMC-G3", "DMC-G2", "DMC-G1",
           "DMC-GF7", "DMC-GF6", "DMC-GF5", "DMC-GF3", "DMC-GF2", "DMC-GF1",
           "DMC-GH4", "DMC-GH3", "DMC-GH2", "DMC-GH1",
           "DMC-GM5", "DMC-GM1", "DMC-GX8", "DMC-GX7", "DMC-GX1",
           "DMC-L10", "DMC-L1" >>, MicroFourThirds)

\* (SensorSize, string), the two values detectSensor returns; NoSensor when
\* a loop ends without returning.
Detected(sensor, from) == << [Sensor |-> sensor, DetectedFrom |-> from] >>
NoSensor == << >>

\* A variant of MatchFrom that goes through the table from its end.
RECURSIVE MatchFromEnd(_, _, _)
MatchFromEnd(mappings, modelUpper, i) ==
    LET k == Len(mappings) + 1 - i
    IN  IF i > Len(mappings) THEN NoSensor
        ELSE IF contains(modelUpper, mappings[k].Pattern)
        THEN Detected(mappings[k].Sensor, "exif")
        ELSE MatchFromEnd(mappings, modelUpper, i + 1)
\* for _, mapping := range mappings {
\*     if contains(modelUpper, mapping.Pattern) {
\*         return mapping.Sensor, detectionSourceEXIF } }
\* from the ith mapping on.
RECURSIVE MatchFrom(_, _, _)
MatchFrom(mappings, modelUpper, i) ==
    IF i > Len(mappings) THEN NoSensor
    ELSE IF contains(modelUpper, mappings[i].Pattern)
    THEN Detected(mappings[i].Sensor, "exif")
    ELSE MatchFrom(mappings, modelUpper, i + 1)

\* The five blocks of detectSensor, in the order of the code: the test of
\* the make, the table, and what the block returns after its loop.
SensorBlocks ==
    << [makes |-> {"CANON"}, mappings |-> canonMappings, after |-> NoSensor],
       [makes |-> {"NIKON"}, mappings |-> nikonMappings, after |-> NoSensor],
       [makes |-> {"SONY"}, mappings |-> sonyMappings, after |-> NoSensor],
       [makes |-> {"OLYMPUS", "OM SYSTEM"}, mappings |-> olympusMappings,
        after |-> Detected(MicroFourThirds, "exif")],
       [makes |-> {"PANASONIC"}, mappings |-> panasonicMappings,
        after |-> Detected(MicroFourThirds, "exif")] >>

\* detectSensor from its bth block on.
RECURSIVE DetectFrom(_, _, _)
DetectFrom(makeUpper, modelUpper, b) ==
    IF b > Len(SensorBlocks) THEN Detected(APSCNikon, "default")
    ELSE IF \E m \in SensorBlocks[b].makes : contains(makeUpper, m)
    THEN LET found == MatchFrom(SensorBlocks[b].mappings, modelUpper, 1)
         IN  IF found # NoSensor THEN found
             ELSE IF SensorBlocks[b].after # NoSensor
             THEN SensorBlocks[b].after
             ELSE DetectFrom(makeUpper, modelUpper, b + 1)
    ELSE DetectFrom(makeUpper, modelUpper, b + 1)

\* func detectSensor(cameraMake, model string) (SensorSize, string)
detectSensor(cameraMake, model) ==
    DetectFrom(toUpper(cameraMake), toUpper(model), 1)[1]

\* The makes and models detectSensor is called with.
CameraMakes ==
    { "", "Canon", "NIKON CORPORATION", "SONY", "OLYMPUS IMAGING CORP.",
      "OM System", "Panasonic", "FUJIFILM", "Nikon for Canon",
      "Sony by Olympus" }
CameraModels ==
    { "", "Canon EOS R5 Mark II", "Canon EOS M50m2", "Canon EOS 2000D",
      "NIKON Z 50", "NIKON Z 5", "NIKON D3500", "NIKON D750 ", "NIKON D40",
      "ILCE-7RM5", "ILCE-6400", "DSC-RX100", "E-M10 Mark IV", "TG-6",
      "DC-GH5S", "DC-S5", "X-T4" }

\*   camera    cameraMake and model
\*   detected  << >> until detectSensor has returned, and then the sensor
\*             and the source it returned
InitSensor ==
    /\ camera \in [cameraMake : CameraMakes, model : CameraModels]
    /\ detected = << >>
    /\ WCSIdle /\ RecordIdle /\ SolveIdle /\ ClientIdle /\ ArgsIdle
    /\ IndexIdle /\ FileIdle /\ ConcurrentIdle

notSensor ==
    << wcsVars, recordVars, solveVars, clientVars, argsVars, indexVars,
       fileVars, concurrentVars >>

CallDetectSensor ==
    /\ detected = << >>
    /\ detected' = << detectSensor(camera.cameraMake, camera.model) >>
    /\ UNCHANGED << camera, notSensor >>

NextSensor == CallDetectSensor

SpecSensor == InitSensor /\ [][NextSensor]_vars

\* detectSensor has returned.
SensorDetected == detected # << >>
\* The tables of the manufacturers the upper-cased make names, in the order
\* detectSensor looks at them, and those of them with a pattern that is a
\* substring of the upper-cased model.
MakerTables ==
    << [names |-> {"CANON"}, table |-> canonMappings],
       [names |-> {"NIKON"}, table |-> nikonMappings],
       [names |-> {"SONY"}, table |-> sonyMappings],
       [names |-> {"OLYMPUS", "OM SYSTEM"}, table |-> olympusMappings],
       [names |-> {"PANASONIC"}, table |-> panasonicMappings] >>
MakeNames(names) ==
    \E n \in names : Contains(toUpper(camera.cameraMake), n)
Matches(table) ==
    {i \in 1..Len(table) : Contains(toUpper(camera.model), table[i].Pattern)}
MatchingTables ==
    {b \in 1..Len(MakerTables) :
        MakeNames(MakerTables[b].names) /\ Matches(MakerTables[b].table) # {}}
Least(S) == CHOOSE i \in S : \A j \in S : i <= j

(***************************************************************************)
(* C21. detectSensor returns the sensor of the first pattern, in list      *)
(* order, of the matching manufacturer's table that is a substring of the  *)
(* upper-cased model, tagged "exif"; an Olympus / OM System or Panasonic   *)
(* make with no matching pattern yields MicroFourThirds tagged "exif";     *)
(* every other input without a match, a Canon, Nikon or Sony make with an  *)
(* unlisted model and empty strings among them, yields APSCNikon tagged    *)
(* "default". (When the make names several manufacturers, the first of     *)
(* their tables with a match is the one that counts.)                      *)
(***************************************************************************)
C21_FirstPatternWins ==
    SensorDetected =>
        detected[1] =
            IF MatchingTables # {}
            THEN LET table == MakerTables[Least(MatchingTables)].table
                 IN  [ Sensor |-> table[Least(Matches(table))].Sensor,
                       DetectedFrom |-> "exif" ]
            ELSE IF MakeNames({"OLYMPUS", "OM SYSTEM", "PANASONIC"})
            THEN [Sensor |-> MicroFourThirds, DetectedFrom |-> "exif"]
            ELSE [Sensor |-> APSCNikon, DetectedFrom |-> "default"]

\* A Nikon Z 50: "Z 50" (APS-C) comes before "Z 5" (full frame) in the
\* table, and both are substrings of the model.
C21_Witness ==
    /\ SensorDetected
    /\ camera = [cameraMake |-> "NIKON CORPORATION", model |-> "NIKON Z 50"]
    /\ Cardinality(Matches(nikonMappings)) > 1
    /\ detected[1] = [Sensor |-> APSCNikon, DetectedFrom |-> "exif"]

(***************************************************************************)
(* ParseWCSFile on a file whose bytes are given: what Spec leaves to       *)
(* chance record by record is here the content of the file, so that the    *)
(* records examined can be compared with the bytes. The file is a regular  *)
(* file: while 80 bytes remain file.Read fills the buffer, and any Read    *)
(* may fail.                                                               *)
(***************************************************************************)
\* The most records a file has.
MaxRecords == 4

\* The full records of the files, and the partial records they may end
\* with.
FileCards ==
    { Card("CRVAL1  =                   10 / RA of reference point (deg)"),
      Card("CRVAL1  = 'n/a'"),
      Card("IMAGEW  =                    6 / Image width"),
      Card("IMAGEH  =                    4 / height = 4 px"),
      Card("CTYPE1  = 'RA---TAN' / comment"),
      Card("ENDDATE = '2024-01-01'"),
      Card("HISTORY solved by astrometry.net"),
      Card("END") }
FileTails == {"", "CRVAL2  =                   -5"}

RECURSIVE Concat(_)
Concat(records) ==
    IF Len(records) = 0 THEN "" ELSE records[1] \o Concat(Tail(records))
FileContents ==
    { Concat(records) \o tail :
        records \in UNION {[1..n -> FileCards] : n \in 0..MaxRecords},
        tail \in FileTails }

\* A variant of Store that keeps the value a key already has.
StoreFirst(h, stored) ==
    IF stored.stored THEN h @@ (stored.key :> stored.value) ELSE h
\* result.WCSHeader[key] = valuePart, for what the record stores.
Store(h, stored) ==
    IF stored.stored THEN (stored.key :> stored.value) @@ h ELSE h

\*   wcs  the call:
\*     pc        "open", "read" (the read loop), "compute" (from "Parse WCS
\*               transformation parameters" to the return statement),
\*               "defer" (the deferred file.Close), "returned"
\*     data      the bytes of the file
\*     offset    the position of the file handle
\*     examined  the records the loop has made a line of, in order
\*     header    result.WCSHeader
\*     readEnd   how the read loop ended, as in Spec
\*     handle    "none", "open" or "closed"
\*     opens     the number of files os.Open has opened
\*     closes    the number of calls of file.Close
\*     locals    << >>, or << the local variables crval1 ... hasWCS >> once
\*               they are extracted
\*     path      "none", or the branch taken: "primary" or "fallback"
\*     result    << >> for nil, or << *result >>
\*     err       the error returned
InitFile ==
    /\ \E data \in FileContents :
          wcs = [ pc |-> "open", data |-> data, offset |-> 0,
                  examined |-> << >>, header |-> EmptyHeader,
                  readEnd |-> "none", handle |-> "none", opens |-> 0,
                  closes |-> 0, locals |-> << >>, path |-> "none",
                  result |-> << >>, err |-> NilError ]
    /\ WCSIdle /\ RecordIdle /\ SolveIdle /\ ClientIdle /\ ArgsIdle
    /\ IndexIdle /\ SensorIdle /\ ConcurrentIdle

notFile ==
    << wcsVars, recordVars, solveVars, clientVars, argsVars, indexVars,
       sensorVars, concurrentVars >>

\* file, err := os.Open(wcsPath), and the return when it fails.
OpenHandle ==
    /\ wcs.pc = "open"
    /\ \/ \E errno \in OpenErrnos :
             wcs' = [wcs EXCEPT !.pc = "returned",
                                !.err = OpenError(PathError("open", errno))]
       \/ wcs' = [wcs EXCEPT !.pc = "read", !.handle = "open",
                             !.opens = @ + 1]
    /\ UNCHANGED notFile

\* A variant of ReadBytes that takes a record beginning with END for the
\* end of the header and stops reading there.
ReadBytesToEND ==
    /\ wcs.pc = "read"
    /\ LET remaining == Len(wcs.data) - wcs.offset
       IN  \/ wcs' = [wcs EXCEPT !.pc = "compute", !.readEnd = "error"]
           \/ /\ remaining = 0
              /\ wcs' = [wcs EXCEPT !.pc = "compute", !.readEnd = "EOF"]
           \/ /\ remaining > 0
              /\ remaining < RecordLen
              /\ wcs' = [wcs EXCEPT !.pc = "compute", !.readEnd = "short",
                                    !.offset = Len(wcs.data)]
           \/ /\ remaining >= RecordLen
              /\ \E line \in {Slice(wcs.data, wcs.offset,
                                    wcs.offset + RecordLen)} :
                    wcs' = [wcs EXCEPT
                               !.offset = @ + RecordLen,
                               !.examined = Append(@, line),
                               !.header = Store(@, ParseRecord(line)),
                               !.pc = IF HasPrefix(line, "END")
                                      THEN "compute" ELSE @,
                               !.readEnd = IF HasPrefix(line, "END")
                                           THEN "EOF" ELSE @]
    /\ UNCHANGED notFile
\* A variant of ReadBytes that pads a partial record with spaces and
\* examines it as a whole one.
ReadBytesPadded ==
    /\ wcs.pc = "read"
    /\ LET remaining == Len(wcs.data) - wcs.offset
       IN  \/ wcs' = [wcs EXCEPT !.pc = "compute", !.readEnd = "error"]
           \/ /\ remaining = 0
              /\ wcs' = [wcs EXCEPT !.pc = "compute", !.readEnd = "EOF"]
           \/ /\ remaining > 0
              /\ \E line \in {Card(Slice(wcs.data, wcs.offset,
                                         Len(wcs.data)))} :
                    wcs' = [wcs EXCEPT
                               !.offset = Len(wcs.data),
                               !.pc = IF remaining < RecordLen
                                      THEN "compute" ELSE @,
                               !.readEnd = IF remaining < RecordLen
                                           THEN "short" ELSE @,
                               !.examined = Append(@, line),
                               !.header = Store(@, ParseRecord(line))]
    /\ UNCHANGED notFile
\* One iteration of the read loop: n, err := file.Read(buf).
ReadBytes ==
    /\ wcs.pc = "read"
    /\ LET remaining == Len(wcs.data) - wcs.offset
       IN  \/ \* err != nil, and not the end of the file
              wcs' = [wcs EXCEPT !.pc = "compute", !.readEnd = "error"]
           \/ \* io.EOF
              /\ remaining = 0
              /\ wcs' = [wcs EXCEPT !.pc = "compute", !.readEnd = "EOF"]
           \/ \* n != 80
              /\ remaining > 0
              /\ remaining < RecordLen
              /\ wcs' = [wcs EXCEPT !.pc = "compute", !.readEnd = "short",
                                    !.offset = Len(wcs.data)]
           \/ \* a whole record
              /\ remaining >= RecordLen
              /\ \E line \in {Slice(wcs.data, wcs.offset,
                                    wcs.offset + RecordLen)} :
                    wcs' = [wcs EXCEPT
                               !.offset = @ + RecordLen,
                               !.examined = Append(@, line),
                               !.header = Store(@, ParseRecord(line))]
    /\ UNCHANGED notFile

\* The rest of the function body, to its return statement.
ComputeResult ==
    /\ wcs.pc = "compute"
    /\ \E t \in {TransformParameters(wcs.header)},
          parsed \in {ParseHeader(wcs.header)} :
          wcs' = [wcs EXCEPT
                     !.pc = "defer",
                     !.locals = << t >>,
                     !.path = IF UsePrimaryPath(t) THEN "primary"
                              ELSE "fallback",
                     !.result = IF parsed.failed THEN << >>
                                ELSE << parsed.result >>,
                     !.err = IF parsed.failed THEN NoValidFieldsError
                             ELSE NilError]
    /\ UNCHANGED notFile

\* A variant of Close for a function that closes the file only when it
\* returns a result.
CloseOnSuccess(w) ==
    IF w.result # << >>
    THEN [w EXCEPT !.handle = "closed", !.closes = @ + 1]
    ELSE w
\* defer func() { _ = file.Close() }()
Close(w) == [w EXCEPT !.handle = "closed", !.closes = @ + 1]

\* The deferred function, and the return to the caller.
CloseHandle ==
    /\ wcs.pc = "defer"
    /\ wcs' = [Close(wcs) EXCEPT !.pc = "returned"]
    /\ UNCHANGED notFile

NextFile ==
    \/ OpenHandle
    \/ ReadBytes
    \/ ComputeResult
    \/ CloseHandle

SpecFile == InitFile /\ [][NextFile]_vars

\* The file: its length, its full records and the partial record after
\* them.
FileLength == Len(wcs.data)
FullRecords == FileLength \div RecordLen
RecordAt(i) == Slice(wcs.data, RecordLen * (i - 1), RecordLen * i)
PartialRecord == SliceFrom(wcs.data, RecordLen * FullRecords)
\* The read loop has ended, and no Read failed; the call has returned.
FileReadThrough == wcs.readEnd \in {"EOF", "short"}
FileReturned == wcs.pc = "returned"
\* What the first n full records of the file store: an entry for every key
\* that a record which does not begin with END has before its first "=",
\* holding the value of the last of these records.
CardEntries == [rec \in FileCards |-> ParseRecord(rec)]
EntryAt(i) == CardEntries[RecordAt(i)]
Occurrences(key, n) ==
    {i \in 1..n : EntryAt(i).stored /\ EntryAt(i).key = key}
Greatest(S) == CHOOSE i \in S : \A j \in S : i >= j
HeaderOfRecords(n) ==
    [ key \in {EntryAt(i).key : i \in {j \in 1..n : EntryAt(j).stored}} |->
        EntryAt(Greatest(Occurrences(key, n))).value ]

(***************************************************************************)
(* C22. For an input of N bytes, exactly the first floor(N/80) 80-byte     *)
(* records are examined, in order; a trailing partial record of fewer than *)
(* 80 bytes ends reading silently, is never stored in the header map, and  *)
(* is not an error by itself: the call returns what it returns for the     *)
(* file without the partial record. (The Reads of the input succeed; a     *)
(* Read that fails is the case of C13.)                                    *)
(***************************************************************************)
C22_FullRecordsExamined ==
    /\ Len(wcs.examined) <= FullRecords
    /\ \A i \in 1..Len(wcs.examined) : wcs.examined[i] = RecordAt(i)
    /\ FileReadThrough =>
          /\ Len(wcs.examined) = FullRecords
          /\ wcs.readEnd = "short" <=> PartialRecord # ""
          /\ wcs.header = HeaderOfRecords(FullRecords)
          /\ "CRVAL2" \notin DOMAIN wcs.header
          /\ FileReturned =>
                /\ wcs.err # NilError
                   <=> ParseHeader(HeaderOfRecords(FullRecords)).failed
                /\ wcs.err # NilError => wcs.err = NoValidFieldsError

\* Two records and the first bytes of a third, which hold CRVAL2: both
\* records were examined, the read ended short, and the call returned a
\* result.
C22_Witness ==
    /\ FileReturned
    /\ FullRecords = 2
    /\ PartialRecord = "CRVAL2  =                   -5"
    /\ wcs.readEnd = "short"
    /\ Len(wcs.examined) = 2
    /\ wcs.err = NilError
    /\ wcs.result # << >>
    /\ wcs.result[1].Dec = Zero

\* The ith full record begins with the bytes END; the records among the
\* first n that do not and that hold an "=".
CardsWithEND == {rec \in FileCards : HasPrefix(rec, "END")}
CardsWithEquals == {rec \in FileCards : Index(rec, "=") # -1}
BeginsWithEND(i) == RecordAt(i) \in CardsWithEND
ContainsEquals(i) == RecordAt(i) \in CardsWithEquals
KeyValueRecords(n) ==
    {i \in 1..n : ~BeginsWithEND(i) /\ ContainsEquals(i)}
\* The record follows a record that begins with END.
FollowsEND(i) == \E j \in 1..(i - 1) : BeginsWithEND(j)

(***************************************************************************)
(* C23. Every record that begins with the three bytes "END" contributes no *)
(* header entry and does not stop reading: a KEY = VALUE record that       *)
(* follows an END record in the file is still stored in the header map and *)
(* used in the computation.                                                *)
(***************************************************************************)
C23_ENDRecordsSkipped ==
    LET n == Len(wcs.examined)
    IN  \* every entry of the map is the entry of a record that does not
        \* begin with END
        /\ \A key \in DOMAIN wcs.header :
              \E i \in KeyValueRecords(n) :
                  /\ EntryAt(i).key = key
                  /\ EntryAt(i).value = wcs.header[key]
        \* reading goes on after such a record
        /\ n > 0 /\ BeginsWithEND(n) /\ wcs.readEnd = "none"
           => wcs.pc = "read"
        /\ FileReadThrough => n = FullRecords
        \* the records after it are stored
        /\ \A i \in KeyValueRecords(n) :
              FollowsEND(i) => EntryAt(i).key \in DOMAIN wcs.header
        \* and the result is computed from the map that holds them
        /\ FileReturned /\ wcs.handle # "none" =>
              /\ wcs.result # << >> =>
                    wcs.result[1] = ParseHeader(wcs.header).result
              /\ wcs.result = << >> <=> ParseHeader(wcs.header).failed

\* END, then CRVAL1 = 10: the call returns a result whose RA is 10.
C23_Witness ==
    /\ FileReturned
    /\ FullRecords = 2
    /\ BeginsWithEND(1)
    /\ RecordAt(1) = Card("END")
    /\ wcs.header = ("CRVAL1" :> "10")
    /\ wcs.result # << >>
    /\ wcs.result[1].RA = IntF(10)

\* The key and the value a record states: the text before the first "="
\* trimmed; the text after it cut at its first "/", trimmed, without the
\* single quotes around it, trimmed again.
CutAt(s, c) == IF Index(s, c) = -1 THEN s ELSE Slice(s, 0, Index(s, c))
StatedKeyOf(rec) == TrimSpace(Slice(rec, 0, Index(rec, "=")))
StatedValueOf(rec) ==
    TrimSpace(Trim(TrimSpace(
        CutAt(SliceFrom(rec, Index(rec, "=") + 1), "/")), {"'"}))
CardKeys == [rec \in CardsWithEquals |-> StatedKeyOf(rec)]
CardValues == [rec \in CardsWithEquals |-> StatedValueOf(rec)]
StatedKey(i) == CardKeys[RecordAt(i)]
StatedValue(i) == CardValues[RecordAt(i)]
\* The map holds what the record examined last states.
LastRecordStored ==
    /\ StatedKey(Len(wcs.examined)) \in DOMAIN wcs.header
    /\ wcs.header[StatedKey(Len(wcs.examined))] =
           StatedValue(Len(wcs.examined))
\* Every entry of the map is stated by one of the records i examined so far
\* that satisfy Storing.
EntriesStatedBy(Storing(_)) ==
    \A key \in DOMAIN wcs.header :
        \E i \in 1..Len(wcs.examined) :
            /\ Storing(i)
            /\ StatedKey(i) = key
            /\ StatedValue(i) = wcs.header[key]

(***************************************************************************)
(* C24 as stated: for each full record containing "=", the stored key is   *)
(* the text before the first "=" trimmed of whitespace and the stored      *)
(* value is the text after it cut at its first "/", trimmed, stripped of   *)
(* leading and trailing single quotes, and trimmed again; a record without *)
(* "=" stores nothing.                                                     *)
(***************************************************************************)
C24_Original ==
    /\ Len(wcs.examined) > 0 /\ ContainsEquals(Len(wcs.examined))
       => LastRecordStored
    /\ EntriesStatedBy(ContainsEquals)

(***************************************************************************)
(* C24, amended: the same for each full record containing "=" that does    *)
(* not begin with END; a record without "=", and a record that begins with *)
(* END, stores nothing.                                                    *)
(***************************************************************************)
StoringRecord(i) == ContainsEquals(i) /\ ~BeginsWithEND(i)
C24_KeyValueStored ==
    /\ Len(wcs.examined) > 0 /\ StoringRecord(Len(wcs.examined))
       => LastRecordStored
    /\ EntriesStatedBy(StoringRecord)

\* The record of the claim, read after a record without "=": one entry.
C24_Witness ==
    /\ Len(wcs.examined) = 2
    /\ RecordAt(1) = Card("HISTORY solved by astrometry.net")
    /\ RecordAt(2) = Card("CTYPE1  = 'RA---TAN' / comment")
    /\ wcs.header = ("CTYPE1" :> "RA---TAN")

\* The local variable that each key of the header is extracted to.
ParameterOf ==
    ("CRVAL1" :> "crval1") @@ ("CRVAL2" :> "crval2") @@
    ("CRPIX1" :> "crpix1") @@ ("CRPIX2" :> "crpix2") @@
    ("CD1_1" :> "cd11") @@ ("CD1_2" :> "cd12") @@
    ("CD2_1" :> "cd21") @@ ("CD2_2" :> "cd22") @@
    ("IMAGEW" :> "imageW") @@ ("IMAGEH" :> "imageH")
\* The keys that occur in several of the full records, and the value of the
\* last record with the key.
Repeated(key) == Cardinality(Occurrences(key, FullRecords)) > 1
LastValue(key) == EntryAt(Greatest(Occurrences(key, FullRecords))).value
EarlierParsed(key) ==
    \E i \in Occurrences(key, FullRecords) :
        ParseHeaderFloat(EntryAt(i).value).ok

(***************************************************************************)
(* C25. When a key occurs in several records, the header map holds the     *)
(* value of its last occurrence only, and every numeric field is derived   *)
(* from that last occurrence alone: if the last occurrence does not parse  *)
(* as a number the field is 0 (and, for CRVAL1, the primary path is not    *)
(* taken) even when an earlier occurrence parsed.                          *)
(***************************************************************************)
C25_LastOccurrenceOnly ==
    FileReturned /\ FileReadThrough =>
        \A key \in {k \in DOMAIN wcs.header : Repeated(k)} :
            /\ wcs.header[key] = LastValue(key)
            /\ key \in DOMAIN ParameterOf =>
                  /\ wcs.locals[1][ParameterOf[key]] =
                         IF ParseHeaderFloat(LastValue(key)).ok
                         THEN ParseHeaderFloat(LastValue(key)).v
                         ELSE Zero
                  /\ key = "CRVAL1" /\ ~ParseHeaderFloat(LastValue(key)).ok
                     => /\ ~wcs.locals[1].hasWCS
                        /\ wcs.path = "fallback"
                        /\ wcs.result # << >> => wcs.result[1].RA = Zero

\* CRVAL1 = 10, then CRVAL1 = 'n/a', then the width and the height: the map
\* holds n, crval1 is 0 and the fallback branch finds no field to return.
C25_Witness ==
    /\ FileReturned
    /\ FileReadThrough
    /\ FullRecords = MaxRecords
    /\ Occurrences("CRVAL1", FullRecords) = {1, 2}
    /\ EntryAt(1).value = "10"
    /\ EarlierParsed("CRVAL1")
    /\ wcs.header["CRVAL1"] = "n"
    /\ wcs.locals[1].crval1 = Zero
    /\ FGt(wcs.locals[1].imageW, Zero)
    /\ FGt(wcs.locals[1].imageH, Zero)
    /\ wcs.path = "fallback"
    /\ wcs.err = NoValidFieldsError

\* The file handles the call holds; the open failed.
HandlesHeld == wcs.opens - wcs.closes
OpenFailed == \E errno \in OpenErrnos :
                  wcs.err = OpenError(PathError("open", errno))

(***************************************************************************)
(* C26. ParseWCSFile holds at most one file handle: after a successful     *)
(* open the handle is closed exactly once before the call returns on every *)
(* return path (successful result and WCS-parse-failed error alike), and   *)
(* when the open fails no handle is held or closed.                        *)
(***************************************************************************)
C26_HandleClosedOnce ==
    /\ HandlesHeld \in {0, 1}
    /\ HandlesHeld = 1 <=> wcs.handle = "open"
    /\ wcs.pc \in {"read", "compute", "defer"} =>
          wcs.opens = 1 /\ wcs.closes = 0
    /\ FileReturned =>
          /\ HandlesHeld = 0
          /\ OpenFailed =>
                wcs.opens = 0 /\ wcs.closes = 0 /\ wcs.handle = "none"
          /\ ~OpenFailed =>
                /\ wcs.opens = 1 /\ wcs.closes = 1 /\ wcs.handle = "closed"
                /\ \/ wcs.result # << >> /\ wcs.err = NilError
                   \/ wcs.result = << >> /\ wcs.err = NoValidFieldsError

\* The file opened and held one record, and the call returned the WCS
\* parse error with the handle closed.
C26_Witness ==
    /\ FileReturned
    /\ FullRecords = 1
    /\ wcs.err = NoValidFieldsError
    /\ ErrorsIs(wcs.err, ErrWCSParseFailed)
    /\ wcs.result = << >>
    /\ wcs.opens = 1
    /\ wcs.closes = 1
    /\ wcs.handle = "closed"

\* The docker command has returned; what Solve has set to return; how the
\* context of the command stood then.
DockerReturned == solve.docker.ran
SolveReturns(res, error) == solve.result = res /\ solve.err = error
DeadlinePassed == solve.docker.elapsed
EndedByDeadline == solve.docker.ctxErr = "DeadlineExceeded"
CanceledByCaller == solve.docker.ctxErr = "Canceled"
SaysNotSolved ==
    \/ Contains(solve.docker.output, "Did not solve")
    \/ Contains(solve.docker.output, "Failed to solve")

(***************************************************************************)
(* C27 as stated: if the deadline of the solve context has passed by the   *)
(* time the docker command returns, Solve returns no result and ErrTimeout *)
(* whatever the exit status or the output of the command.                  *)
(***************************************************************************)
C27_Original ==
    DockerReturned /\ DeadlinePassed => SolveReturns(<< >>, ErrTimeout)

(***************************************************************************)
(* C27, amended: if the solve context has ended by its deadline when the   *)
(* docker command returns (solveCtx.Err() is context.DeadlineExceeded),    *)
(* Solve returns no result and ErrTimeout whatever the exit status or the  *)
(* output of the command, and the output file is not parsed; the timeout   *)
(* check precedes the no-solution check, the docker-failure check and WCS  *)
(* parsing. A context the caller cancelled before the deadline keeps the   *)
(* error Canceled after the deadline has passed, and then Solve does not   *)
(* return ErrTimeout.                                                      *)
(***************************************************************************)
C27_TimeoutFirst ==
    DockerReturned =>
        /\ EndedByDeadline =>
              /\ SolveReturns(<< >>, ErrTimeout)
              /\ solve.pc \in {"defer", "remove", "returned"}
        /\ ~EndedByDeadline => solve.err # ErrTimeout
        /\ CanceledByCaller /\ solve.docker.failed =>
              \/ SolveReturns(<< UnsolvedResult >>, NilError)
              \/ solve.result = << >> /\ ErrorsIs(solve.err, ErrDockerFailed)

\* The command exited with no error, wrote "Did not solve" and left a .wcs
\* file of a solved field, and the deadline had passed: ErrTimeout.
C27_Witness ==
    /\ CallReturned
    /\ DockerReturned
    /\ EndedByDeadline
    /\ ~solve.docker.failed
    /\ SaysNotSolved
    /\ ".wcs" \in solve.docker.written
    /\ solve.docker.wcs # EmptyHeader
    /\ SolveReturns(<< >>, ErrTimeout)

\* The docker command failed before the deadline of its context.
FailedBeforeDeadline ==
    /\ DockerReturned
    /\ solve.docker.failed
    /\ ~DeadlinePassed
    /\ ~EndedByDeadline
\* Every numeric field, SolveTime and OutputFiles of the Result are zero.
ZeroValued(r) ==
    /\ r.RA = Zero /\ r.Dec = Zero /\ r.PixelScale = Zero
    /\ r.Rotation = Zero /\ r.FieldWidth = Zero /\ r.FieldHeight = Zero
    /\ r.SolveTime = Zero
    /\ r.OutputFiles = << >>

(***************************************************************************)
(* C28. When the docker command fails before the deadline, Solve returns a *)
(* Result with Solved = false and a nil error if the command output        *)
(* contains "Did not solve" or "Failed to solve", and otherwise no result  *)
(* and an error matching ErrDockerFailed; on no path does Solve or         *)
(* SolveBytes return ErrNoSolution, and a Result with Solved = false       *)
(* always has all numeric fields, SolveTime and OutputFiles at their zero  *)
(* values.                                                                 *)
(***************************************************************************)
C28_FailedCommand ==
    /\ FailedBeforeDeadline =>
          /\ solve.pc \in {"defer", "remove", "returned"}
          /\ SaysNotSolved =>
                /\ solve.result # << >>
                /\ ~solve.result[1].Solved
                /\ solve.err = NilError
          /\ ~SaysNotSolved =>
                /\ solve.result = << >>
                /\ ErrorsIs(solve.err, ErrDockerFailed)
    /\ ~ErrorsIs(solve.err, ErrNoSolution)
    /\ solve.result # << >> /\ ~solve.result[1].Solved =>
          ZeroValued(solve.result[1])

\* SolveBytes, a command that fails with "Failed to solve": a Result that
\* is not solved, and no error.
C28_Witness ==
    /\ CallReturned
    /\ solve.entry = "SolveBytes"
    /\ FailedBeforeDeadline
    /\ solve.docker.output = "solve-field: Failed to solve field."
    /\ solve.docker.written # {}
    /\ solve.result # << >>
    /\ ~solve.result[1].Solved
    /\ ZeroValued(solve.result[1])
    /\ solve.err = NilError

\* The last three arguments, and the working directory and the image path
\* of each mode.
LastThree == SubSeq(args, Len(args) - 2, Len(args))
RunModePaths == << "/data", "/data/" \o opts.imageFilename >>
ExecModePaths == << opts.tempDir, opts.tempDir \o "/" \o opts.imageFilename >>

(***************************************************************************)
(* C29. For all options, the argument list built for solve-field starts    *)
(* with "solve-field" and ends with "--dir", the working directory, and    *)
(* then the image path as its last element; in docker-run mode these are   *)
(* "/data" and "/data/<image file name>", in docker-exec mode the host     *)
(* temp directory and the image path inside it; -L, -H and -u appear only  *)
(* when both ScaleLow and ScaleHigh are positive, and --downsample only    *)
(* when DownsampleFactor is positive.                                      *)
(***************************************************************************)
C29_ArgumentFrame ==
    ArgsBuilt =>
        /\ Len(args) >= 4
        /\ args[1] = "solve-field"
        /\ LastThree = << "--dir" >> \o
               (IF opts.config.UseDockerExec THEN ExecModePaths
                ELSE RunModePaths)
        /\ HasArg("-L") \/ HasArg("-H") \/ HasArg("-u") =>
              /\ Positive(opts.options.ScaleLow)
              /\ Positive(opts.options.ScaleHigh)
        /\ HasArg("--downsample") => opts.options.DownsampleFactor > 0

\* Exec mode, a negative lower bound with a positive upper bound, a
\* negative downsample factor: none of -L, -H, -u and --downsample, and the
\* host paths at the end.
C29_Witness ==
    /\ ArgsBuilt
    /\ opts.config.UseDockerExec
    /\ opts.options.ScaleLow = IntF(-1)
    /\ opts.options.ScaleHigh = IntF(3)
    /\ opts.options.DownsampleFactor < 0
    /\ ~HasArg("-L") /\ ~HasArg("-H") /\ ~HasArg("-u")
    /\ ~HasArg("--downsample")
    /\ LastThree =
           << "--dir", "/tmp/astrometry-1", "/tmp/astrometry-1/m31.jpg" >>

(***************************************************************************)
(* Concurrent calls of Solve and SolveBytes on one Client. Each call is a  *)
(* goroutine that takes the steps of Solve (and of SolveBytes around it)   *)
(* one at a time, in any interleaving with the steps of the others, on one *)
(* file system.                                                            *)
(*   shared  c.config, the only state of the Client                        *)
(*   disk    the file system: for each path that exists, the call that     *)
(*           wrote it last (0 for what was there before) and what it holds *)
(*   calls   for each call:                                                *)
(*     pc         as in solve.pc                                           *)
(*     entry      the function the caller called                           *)
(*     keep       opts.KeepTempFiles                                       *)
(*     imagePath  the argument of Solve                                    *)
(*     tempFile   tempFile.Name() of SolveBytes, "" before os.CreateTemp   *)
(*     tempDir    tempDir of Solve, "" before os.MkdirTemp                 *)
(*     outcome    "" until Solve has set what it returns, then "solved",   *)
(*                "unsolved" or "error"                                    *)
(***************************************************************************)
\* The calls in flight: two goroutines.
Callers == {1, 2}
SourceImage == "/photos/m31.jpg"
\* The names os.CreateTemp and os.MkdirTemp draw from: the pattern with its
\* "*" replaced by a random number, here one of as many numbers as there
\* are calls.
TempNames(dir, prefix, suffix) ==
    {Join(dir, prefix \o FormatNat(n) \o suffix) : n \in Callers}
\* A variant of FreshNames that does not look whether the name exists.
AnyNames(fs, candidates) == candidates
\* os.CreateTemp opens with O_EXCL and os.MkdirTemp calls os.Mkdir; both
\* try another name when the name exists, so the name they return did not
\* exist before.
FreshNames(fs, candidates) == candidates \ DOMAIN fs

Written(c, kind) == [by |-> c, holds |-> kind]

InitConcurrent ==
    /\ shared = SolveConfig(FALSE)
    /\ disk = (SourceImage :> Written(0, "image"))
    /\ calls \in [Callers ->
                    { [ pc |-> IF e = "Solve" THEN "stat" ELSE "create",
                        entry |-> e, keep |-> k,
                        imagePath |-> IF e = "Solve" THEN SourceImage ELSE "",
                        tempFile |-> "", tempDir |-> "", outcome |-> "" ] :
                      e \in {"Solve", "SolveBytes"}, k \in BOOLEAN }]
    /\ WCSIdle /\ RecordIdle /\ SolveIdle /\ ClientIdle /\ ArgsIdle
    /\ IndexIdle /\ SensorIdle /\ FileIdle

notConcurrent ==
    << wcsVars, recordVars, solveVars, clientVars, argsVars, indexVars,
       sensorVars, fileVars >>

\* Solve has set what it returns: the call goes on to its deferred
\* functions.
Finish(call, outcome, next) == [call EXCEPT !.pc = next, !.outcome = outcome]

\* tempFile, err := os.CreateTemp(c.config.TempDir, "image-*."+format)
CallCreateTemp(c) ==
    /\ calls[c].pc = "create"
    /\ \/ /\ calls' = [calls EXCEPT ![c] = Finish(@, "error", "returned")]
          /\ UNCHANGED disk
       \/ \E name \in FreshNames(disk, TempNames(shared.TempDir, "image-",
                                                 "." \o ImageFormat)) :
             /\ calls' = [calls EXCEPT ![c].pc = "write",
                                       ![c].tempFile = name]
             /\ disk' = (name :> Written(c, "")) @@ disk
    /\ UNCHANGED << shared, notConcurrent >>

\* tempFile.Write(data)
CallWriteData(c) ==
    /\ calls[c].pc = "write"
    /\ \/ /\ calls' = [calls EXCEPT ![c] = Finish(@, "error", "remove")]
          /\ UNCHANGED disk
       \/ /\ calls' = [calls EXCEPT ![c].pc = "close"]
          /\ disk' = [disk EXCEPT ![calls[c].tempFile] = Written(c, "image")]
    /\ UNCHANGED << shared, notConcurrent >>

\* tempFile.Close(), and the call c.Solve(ctx, tempFile.Name(), opts)
CallCloseTemp(c) ==
    /\ calls[c].pc = "close"
    /\ calls' = [calls EXCEPT ![c].pc = "stat",
                              ![c].imagePath = calls[c].tempFile]
    /\ UNCHANGED << disk, shared, notConcurrent >>

\* os.Stat(imagePath)
CallStatImage(c) ==
    /\ calls[c].pc = "stat"
    /\ calls' = [calls EXCEPT ![c] =
                    IF calls[c].imagePath \in DOMAIN disk
                    THEN [@ EXCEPT !.pc = "mkdir"]
                    ELSE Finish(@, "error", AfterSolve(@))]
    /\ UNCHANGED << disk, shared, notConcurrent >>

\* tempDir, err := os.MkdirTemp(c.config.TempDir, "astrometry-*")
CallMakeTempDir(c) ==
    /\ calls[c].pc = "mkdir"
    /\ \/ /\ calls' = [calls EXCEPT ![c] = Finish(@, "error", AfterSolve(@))]
          /\ UNCHANGED disk
       \/ \E dir \in FreshNames(disk, TempNames(shared.TempDir,
                                                "astrometry-", "")) :
             /\ calls' = [calls EXCEPT ![c].pc = "copy", ![c].tempDir = dir]
             /\ disk' = (dir :> Written(c, "directory")) @@ disk
    /\ UNCHANGED << shared, notConcurrent >>

\* copyFile(absImagePath, tempImagePath): what the image holds is written
\* to the copy.
CallCopyImage(c) ==
    /\ calls[c].pc = "copy"
    /\ \E copy \in {Join(calls[c].tempDir, ImageFilename(calls[c]))} :
          IF calls[c].imagePath \in DOMAIN disk
          THEN /\ calls' = [calls EXCEPT ![c].pc = "docker"]
               /\ disk' = (copy :> Written(c, disk[calls[c].imagePath].holds))
                          @@ disk
          ELSE /\ calls' = [calls EXCEPT ![c] = Finish(@, "error", "defer")]
               /\ UNCHANGED disk
    /\ UNCHANGED << shared, notConcurrent >>

\* The docker command: solve-field reads the copy and writes its output
\* files beside it. It solves the field only if the copy holds the image.
CallRunDocker(c) ==
    /\ calls[c].pc = "docker"
    /\ \E copy \in {Join(calls[c].tempDir, ImageFilename(calls[c]))} :
          \/ /\ copy \in DOMAIN disk
             /\ disk[copy].holds = "image"
             /\ calls' = [calls EXCEPT ![c].pc = "parse"]
             /\ disk' = (OutputPath(calls[c], ".wcs") :> Written(c, "wcs"))
                        @@ (OutputPath(calls[c], ".axy") :> Written(c, "axy"))
                        @@ disk
          \/ /\ calls' = [calls EXCEPT ![c] = Finish(@, "unsolved", "defer")]
             /\ IF calls[c].tempDir \in DOMAIN disk
                THEN disk' = (OutputPath(calls[c], ".axy")
                                  :> Written(c, "axy")) @@ disk
                ELSE UNCHANGED disk
          \/ /\ calls' = [calls EXCEPT ![c] = Finish(@, "error", "defer")]
             /\ UNCHANGED disk
    /\ UNCHANGED << shared, notConcurrent >>

\* ParseWCSFile(wcsPath) and the rest of Solve
CallParseWCS(c) ==
    /\ calls[c].pc = "parse"
    /\ calls' = [calls EXCEPT ![c] =
                    IF OutputPath(@, ".wcs") \in DOMAIN disk
                       /\ disk[OutputPath(@, ".wcs")] = Written(c, "wcs")
                    THEN Finish(@, "solved", "defer")
                    ELSE Finish(@, "error", "defer")]
    /\ UNCHANGED << disk, shared, notConcurrent >>

\* os.RemoveAll(dir) on the file system with contents.
RemoveAllFrom(fs, dir) ==
    [p \in {q \in DOMAIN fs : ~Within(q, dir)} |-> fs[p]]
\* The deferred os.RemoveAll(tempDir) of Solve, unless KeepTempFiles.
CallRunDeferred(c) ==
    /\ calls[c].pc = "defer"
    /\ calls' = [calls EXCEPT ![c].pc = AfterSolve(calls[c])]
    /\ \/ /\ ~calls[c].keep
          /\ disk' = RemoveAllFrom(disk, calls[c].tempDir)
       \/ UNCHANGED disk
    /\ UNCHANGED << shared, notConcurrent >>

\* The deferred os.Remove(tempFile.Name()) of SolveBytes.
CallRemoveTemp(c) ==
    /\ calls[c].pc = "remove"
    /\ calls' = [calls EXCEPT ![c].pc = "returned"]
    /\ \/ disk' = [p \in DOMAIN disk \ {calls[c].tempFile} |-> disk[p]]
       \/ UNCHANGED disk
    /\ UNCHANGED << shared, notConcurrent >>

NextConcurrent ==
    \E c \in Callers :
        \/ CallCreateTemp(c)
        \/ CallWriteData(c)
        \/ CallCloseTemp(c)
        \/ CallStatImage(c)
        \/ CallMakeTempDir(c)
        \/ CallCopyImage(c)
        \/ CallRunDocker(c)
        \/ CallParseWCS(c)
        \/ CallRunDeferred(c)
        \/ CallRemoveTemp(c)

SpecConcurrent == InitConcurrent /\ [][NextConcurrent]_vars

\* The call has not returned; it is between os.CreateTemp and the deferred
\* os.Remove; it is between os.MkdirTemp and the deferred os.RemoveAll.
InFlight(c) == calls[c].pc # "returned"
HoldsTempFile(c) == calls[c].tempFile # "" /\ InFlight(c)
HoldsTempDir(c) ==
    calls[c].tempDir # "" /\ calls[c].pc \in {"copy", "docker", "parse", "defer"}
\* The paths the call reads or writes from here on: the image before it is
\* copied, its temp file, its temp directory and what lies in it.
InUse(c) ==
    {p \in DOMAIN disk :
        \/ calls[c].pc \in {"stat", "mkdir", "copy"} /\ p = calls[c].imagePath
        \/ HoldsTempFile(c) /\ p = calls[c].tempFile
        \/ HoldsTempDir(c) /\ Within(p, calls[c].tempDir)}
\* No two calls hold the same temp directory or the same temp file.
OwnTempPaths ==
    \A a, b \in Callers :
        a # b =>
            /\ HoldsTempDir(a) /\ HoldsTempDir(b) =>
                  calls[a].tempDir # calls[b].tempDir
            /\ HoldsTempFile(a) /\ HoldsTempFile(b) =>
                  calls[a].tempFile # calls[b].tempFile
            /\ HoldsTempDir(a) /\ HoldsTempFile(b) =>
                  ~Within(calls[b].tempFile, calls[a].tempDir)
\* The temp directory and the temp file a step gives a call did not exist
\* before the step.
FreshlyCreated ==
    \A c \in Callers :
        /\ calls'[c].tempDir # calls[c].tempDir =>
              calls'[c].tempDir \notin DOMAIN disk
        /\ calls'[c].tempFile # calls[c].tempFile =>
              calls'[c].tempFile \notin DOMAIN disk
\* A step of one call leaves every path the other calls use as it is, and
\* puts nothing into their temp directories.
OthersUndisturbed ==
    \A b \in Callers :
        calls'[b] = calls[b] =>
            /\ \A p \in InUse(b) : p \in DOMAIN disk' /\ disk'[p] = disk[p]
            /\ HoldsTempDir(b) =>
                  \A p \in DOMAIN disk' \ DOMAIN disk :
                      ~Within(p, calls[b].tempDir)

(***************************************************************************)
(* C30. Concurrent Solve and SolveBytes calls on one Client are            *)
(* independent: each call works in its own freshly created temp directory  *)
(* (and temp file), no call writes state shared with another call, and the *)
(* cleanup performed by one call never removes or alters a file that       *)
(* another in-flight call reads or writes, under every interleaving.       *)
(***************************************************************************)
C30_IndependentCalls ==
    /\ []OwnTempPaths
    /\ [][FreshlyCreated /\ OthersUndisturbed /\ shared' = shared]_vars

\* A call of Solve has removed its temp directory and returned while a call
\* of SolveBytes, between docker and ParseWCSFile, still has its own temp
\* file, image copy and .wcs file.
C30_Witness ==
    /\ calls[1].entry = "Solve"
    /\ calls[1].pc = "returned"
    /\ calls[1].outcome = "solved"
    /\ ~calls[1].keep
    /\ calls[1].tempDir \notin DOMAIN disk
    /\ calls[2].entry = "SolveBytes"
    /\ calls[2].pc = "parse"
    /\ calls[2].tempFile \in DOMAIN disk
    /\ Join(calls[2].tempDir, ImageFilename(calls[2])) \in DOMAIN disk
    /\ OutputPath(calls[2], ".wcs") \in DOMAIN disk
    /\ disk[OutputPath(calls[2], ".wcs")] = Written(2, "wcs")

=============================================================================
